---- MODULE Spec2Model ----
(***************************************************************************)
(* State-machine model of PlotCanvas (source/plotCanvasClass.py): the      *)
(* click / release / motion / scroll handlers, the two hit tests, and the  *)
(* incremental redraw bookkeeping (update_nodes / update_edges).           *)
(*                                                                         *)
(* Conventions                                                             *)
(*  - A coordinate is an integer number of HALVES of a logical unit, so    *)
(*    that int() truncation in check_node_clicked is visible.  U(n) turns  *)
(*    logical units into halves.                                           *)
(*  - Python None is the empty sequence.  A node id is a non-empty         *)
(*    sequence of one-character strings (str(lastID) yields digits); an    *)
(*    edge is a pair <<v, w>> of node ids.                                 *)
(*  - An optional coordinate (event.xdata / event.ydata) is <<>> when      *)
(*    absent and <<x>> when present.                                       *)
(*  - Floats of the view state are binary floating-point numbers with a     *)
(*    significand of MantissaBits bits, rounded to nearest (ties to even). *)
(*    Squared distances of the hit tests are exact rationals <<num, den>>. *)
(***************************************************************************)
EXTENDS Integers, Sequences, FiniteSets, TLC

\* ------------------------------------------------------------------ bounds
\* Number of input events of one behaviour.
MaxEvents == 3
\* Bits of the significand of a float (53 in the program).
MantissaBits == 10

\* --------------------------------------------------------------- constants
SIMILARITY_DIST == 9
\* sqSize of PlotCanvas.__init__
sqSize == 120
nodeLabelFontSize0 == 9
edgeLabelFontSize0 == 7
edgeWidthSize0 == 4

None == <<>>

U(n) == 2 * n

\* ------------------------------------------------------------- arithmetic
Abs(n) == IF n < 0 THEN -n ELSE n

RECURSIVE GCD(_, _)
GCD(a, b) == IF b = 0 THEN a ELSE GCD(b, a % b)

\* The rational n/d in lowest terms with a positive denominator (d # 0).
Rat(n, d) ==
    LET g == GCD(Abs(n), Abs(d))
        s == IF d < 0 THEN -1 ELSE 1
    IN  <<s * (n \div g), s * (d \div g)>>

RLeq(a, b) == a[1] * b[2] <= b[1] * a[2]

\* ------------------------------------------------------------------ floats
\* A Python float of the view state: <<m, e>> stands for m * 2^e, with m = 0
\* and e = 0, or 2^(MantissaBits-1) <= |m| < 2^MantissaBits.  Every operation
\* rounds its exact result to the nearest such value, ties to the even m.
Pow2(k) == 2 ^ k

\* The float nearest to n * 2^e for n > 0; sticky: a non-zero part below the
\* last bit of n was already dropped.  k is the number of bits of n beyond
\* MantissaBits, r the part of n that is dropped.
RECURSIVE FRoundMag(_, _, _)
FRoundMag(n, e, sticky) ==
    IF n < Pow2(MantissaBits - 1) THEN FRoundMag(2 * n, e - 1, sticky)
    ELSE IF n < Pow2(MantissaBits) THEN <<n, e>>
    ELSE LET k == CHOOSE k \in 1..(MantissaBits + 4) :
                      Pow2(MantissaBits + k - 1) <= n /\ n < Pow2(MantissaBits + k)
             q == n \div Pow2(k)
             r == n % Pow2(k)
             half == Pow2(k - 1)
             up == r > half \/ (r = half /\ (sticky \/ q % 2 = 1))
         IN  IF ~up THEN <<q, e + k>>
             ELSE IF q + 1 = Pow2(MantissaBits)
             THEN <<Pow2(MantissaBits - 1), e + k + 1>>
             ELSE <<q + 1, e + k>>

FNeg(a) == <<-a[1], a[2]>>

FRound(n, e, sticky) ==
    IF n = 0 THEN <<0, 0>>
    ELSE IF n < 0 THEN FNeg(FRoundMag(-n, e, sticky))
    ELSE FRoundMag(n, e, sticky)

\* float(n) of an integer, and the float of a position given in halves
Float(n) == FRound(n, 0, FALSE)
Logical(h) == FRound(h, -1, FALSE)

FMul(a, b) == FRound(a[1] * b[1], a[2] + b[2], FALSE)

\* a / b for b # 0: the quotient is taken to MantissaBits + 2 bits at least,
\* with the remainder as the sticky part
FDiv(a, b) ==
    LET n == Abs(a[1]) * Pow2(MantissaBits + 2)
        sign == IF (a[1] < 0) = (b[1] < 0) THEN 1 ELSE -1
    IN  FRound(sign * (n \div Abs(b[1])), a[2] - b[2] - (MantissaBits + 2),
               n % Abs(b[1]) # 0)

\* a + b for a[2] >= b[2]: b is below a quarter of a unit in the last place
\* of a when the exponents differ by more than MantissaBits + 2
FAddAligned(a, b) ==
    IF a[2] - b[2] > MantissaBits + 2 THEN a
    ELSE FRound(a[1] * Pow2(a[2] - b[2]) + b[1], b[2], FALSE)

FAdd(a, b) ==
    IF a[1] = 0 THEN b
    ELSE IF b[1] = 0 THEN a
    ELSE IF a[2] >= b[2] THEN FAddAligned(a, b)
    ELSE FAddAligned(b, a)

FSub(a, b) == FAdd(a, FNeg(b))

\* Python's int() on a float: truncation toward zero (argument in halves,
\* result in halves).
IntTruncTowardFloor(h) == (h \div 2) * 2
int(h) == IF h >= 0 THEN (h \div 2) * 2 ELSE -(((-h) \div 2) * 2)

\* Python's str() of a non-negative integer, as a sequence of digits.
Digit(n) == CASE n = 0 -> "0" [] n = 1 -> "1" [] n = 2 -> "2" [] n = 3 -> "3"
              [] n = 4 -> "4" [] n = 5 -> "5" [] n = 6 -> "6" [] n = 7 -> "7"
              [] n = 8 -> "8" [] n = 9 -> "9"
RECURSIVE str(_)
str(n) == IF n < 10 THEN <<Digit(n)>> ELSE str(n \div 10) \o <<Digit(n % 10)>>

\* ------------------------------------------------------------- sequences
Range(s) == {s[i] : i \in 1..Len(s)}
InSeq(x, s) == \E i \in 1..Len(s) : s[i] = x
RemoveAt(s, i) == SubSeq(s, 1, i - 1) \o SubSeq(s, i + 1, Len(s))
ReplaceAt(s, i, x) == [s EXCEPT ![i] = x]
\* dict[k] = v
Put(d, k, v) == (k :> v) @@ d
EmptyDict == [x \in {} |-> 0]

\* --------------------------------------------------------------- geometry
Sq(n) == n * n
Dist2(p, q) == Sq(p[1] - q[1]) + Sq(p[2] - q[2])
\* SIMILARITY_DIST in halves, squared; and (2 * SIMILARITY_DIST) squared.
Sim2 == Sq(U(SIMILARITY_DIST))
TwoSim2 == Sq(U(2 * SIMILARITY_DIST))

\* The value returned by compute_dist_projection_on_segment: the float
\* sign * sqrt(d2) (d2 a rational, in halves squared), or NaN.
Sentinel == [sign |-> "neg", d2 |-> <<Sq(U(1)), 1>>]
NaN == [sign |-> "nan", d2 |-> <<0, 1>>]

compute_dist_projection_on_segment_openends(clickpos, startpos, endpos) ==
    LET mu == <<clickpos[1] - startpos[1], clickpos[2] - startpos[2]>>
        b == <<endpos[1] - startpos[1], endpos[2] - startpos[2]>>
        dot == mu[1] * b[1] + mu[2] * b[2]
        bb == Sq(b[1]) + Sq(b[2])
    IN  \* xScalar = dot / norm(b)**2 is 0/0 = nan on a zero-length segment;
        \* nan < 0 and nan > 1 are both false and norm(mu - nan * b) is nan.
        IF bb = 0 THEN NaN
        \* xScalar < 0 or xScalar > 1
        ELSE IF dot <= 0 \/ dot >= bb THEN Sentinel
        ELSE [sign |-> "nonneg",
              d2 |-> Rat((Sq(mu[1]) + Sq(mu[2])) * bb - Sq(dot), bb)]

compute_dist_projection_on_segment(clickpos, startpos, endpos) ==
    LET mu == <<clickpos[1] - startpos[1], clickpos[2] - startpos[2]>>
        b == <<endpos[1] - startpos[1], endpos[2] - startpos[2]>>
        dot == mu[1] * b[1] + mu[2] * b[2]
        bb == Sq(b[1]) + Sq(b[2])
    IN  \* xScalar = dot / norm(b)**2 is 0/0 = nan on a zero-length segment;
        \* nan < 0 and nan > 1 are both false and norm(mu - nan * b) is nan.
        IF bb = 0 THEN NaN
        \* xScalar < 0 or xScalar > 1
        ELSE IF dot < 0 \/ dot > bb THEN Sentinel
        ELSE [sign |-> "nonneg",
              d2 |-> Rat((Sq(mu[1]) + Sq(mu[2])) * bb - Sq(dot), bb)]

\* 0 <= dist <= SIMILARITY_DIST
WithinSimilarity(d) == d.sign = "nonneg" /\ RLeq(d.d2, <<Sim2, 1>>)

\* ------------------------------------------------------------------ graph
\* networkx DiGraph: nodes in insertion order, adj[v] the successors of v in
\* insertion order, one attribute record per edge, graph['lastID'].
EmptyGraph ==
    [nodes |-> <<>>, position |-> EmptyDict, label |-> EmptyDict,
     adj |-> EmptyDict, attr |-> EmptyDict, lastID |-> 0]

\* G.edges(): for every node in node order, its out-edges in adjacency order.
RECURSIVE edgesFrom(_, _)
edgesFrom(G, i) ==
    IF i > Len(G.nodes) THEN <<>>
    ELSE LET v == G.nodes[i]
         IN  [j \in 1..Len(G.adj[v]) |-> <<v, G.adj[v][j]>>] \o edgesFrom(G, i + 1)
edges(G) == edgesFrom(G, 1)

has_node(G, v) == InSeq(v, G.nodes)
has_edge_undirected(G, u, v) ==
    has_node(G, u) /\ has_node(G, v) /\ (InSeq(v, G.adj[u]) \/ InSeq(u, G.adj[v]))
has_edge(G, u, v) == has_node(G, u) /\ InSeq(v, G.adj[u])

add_node(G, v) ==
    IF has_node(G, v) THEN G
    ELSE [G EXCEPT !.nodes = Append(@, v), !.adj = Put(@, v, <<>>)]

add_edge(G, u, v, a) ==
    [G EXCEPT !.adj = IF InSeq(v, @[u]) THEN @ ELSE Put(@, u, Append(@[u], v)),
              !.attr = Put(@, <<u, v>>, a)]

\* The dict d without the keys outside S.
Restrict(d, S) == [x \in S |-> d[x]]

\* networkx remove_edge and remove_node (a node goes with its in- and
\* out-edges); the order of the remaining nodes and edges is kept.
remove_edge(G, u, v) ==
    [G EXCEPT !.adj[u] = SelectSeq(@, LAMBDA x : x # v),
              !.attr = Restrict(@, (DOMAIN @) \ {<<u, v>>})]

remove_node(G, v) ==
    [G EXCEPT !.nodes = SelectSeq(@, LAMBDA n : n # v),
              !.position = Restrict(@, (DOMAIN @) \ {v}),
              !.label = Restrict(@, (DOMAIN @) \ {v}),
              !.adj = [n \in (DOMAIN @) \ {v} |-> SelectSeq(@[n], LAMBDA x : x # v)],
              !.attr = Restrict(@, {e \in DOMAIN @ : e[1] # v /\ e[2] # v})]

\* ----------------------------------------------------------------- hit tests
\* check_edge_clicked: the first edge, in G.edges() order, whose projection
\* distance lies in [0, SIMILARITY_DIST]; None when there is none.
RECURSIVE edgeScan(_, _, _, _)
edgeScan(G, es, i, clickpos) ==
    IF i > Len(es) THEN None
    ELSE LET dist == compute_dist_projection_on_segment(
                        clickpos, G.position[es[i][1]], G.position[es[i][2]])
         IN  IF WithinSimilarity(dist) THEN es[i]
             ELSE edgeScan(G, es, i + 1, clickpos)

\* (the scan without its break: the last edge in range)
check_edge_clicked_nobreak(G, clickpos) ==
    LET es == edges(G)
        hits == {i \in 1..Len(es) :
                    WithinSimilarity(compute_dist_projection_on_segment(
                        clickpos, G.position[es[i][1]], G.position[es[i][2]]))}
    IN  IF hits = {} THEN None
        ELSE es[CHOOSE i \in hits : \A j \in hits : j <= i]

check_edge_clicked(G, clickpos) == edgeScan(G, edges(G), 1, clickpos)

\* The loop of check_node_clicked: <<clickedNode, minDist squared>>, where a
\* minDist of -1 stands for float('inf').  The loop stops at the first node
\* within SIMILARITY_DIST.
RECURSIVE nodeScan(_, _, _, _)
nodeScan(G, i, clickpos, minD2) ==
    IF i > Len(G.nodes) THEN <<None, minD2>>
    ELSE LET d2 == Dist2(clickpos, G.position[G.nodes[i]])
         IN  IF d2 <= Sim2 THEN <<G.nodes[i], minD2>>
             ELSE nodeScan(G, i + 1, clickpos,
                           IF minD2 = -1 \/ d2 <= minD2 THEN d2 ELSE minD2)

check_node_clicked_nohitguard(G, clickpos, edgePossible) ==
    LET r == nodeScan(G, 1, clickpos, -1)
        nodeID == str(G.lastID)
        G1 == add_node(G, nodeID)
    IN  IF (r[2] = -1 \/ r[2] > TwoSim2) /\ ~edgePossible
        THEN [network |-> [G1 EXCEPT
                  !.position = Put(@, nodeID, <<int(clickpos[1]), int(clickpos[2])>>),
                  !.label = Put(@, nodeID, nodeID),
                  !.lastID = @ + 1],
              node |-> nodeID]
        ELSE [network |-> G, node |-> r[1]]

check_node_clicked_nodeadzone(G, clickpos, edgePossible) ==
    LET r == nodeScan(G, 1, clickpos, -1)
        nodeID == str(G.lastID)
        G1 == add_node(G, nodeID)
    IN  IF r[1] = None /\ (r[2] = -1 \/ r[2] > Sim2) /\ ~edgePossible
        THEN [network |-> [G1 EXCEPT
                  !.position = Put(@, nodeID, <<int(clickpos[1]), int(clickpos[2])>>),
                  !.label = Put(@, nodeID, nodeID),
                  !.lastID = @ + 1],
              node |-> nodeID]
        ELSE [network |-> G, node |-> r[1]]

\* check_node_clicked: the clicked node, a node created at the truncated
\* click position, or None; with the graph as the call leaves it.
check_node_clicked(G, clickpos, edgePossible) ==
    LET r == nodeScan(G, 1, clickpos, -1)
        nodeID == str(G.lastID)
        G1 == add_node(G, nodeID)
    IN  IF r[1] = None /\ (r[2] = -1 \/ r[2] > TwoSim2) /\ ~edgePossible
        THEN [network |-> [G1 EXCEPT
                  !.position = Put(@, nodeID, <<int(clickpos[1]), int(clickpos[2])>>),
                  !.label = Put(@, nodeID, nodeID),
                  !.lastID = @ + 1],
              node |-> nodeID]
        ELSE [network |-> G, node |-> r[1]]

\* ------------------------------------------------------------ edge attributes
\* A Python number: num/den, den = 0 for infinity, and whether it is a float.
PInt(n) == [num |-> n, den |-> 1, float |-> FALSE]
PInf == [num |-> 1, den |-> 0, float |-> TRUE]
PFloat(n, d) == [num |-> n, den |-> d, float |-> TRUE]

NewEdgeAttr_swapped(type, onlyNTF) ==
    LET resettingEnabledBool == IF onlyNTF THEN "False" ELSE "None"
        activeEnabledBool == IF onlyNTF THEN "True" ELSE "None"
    IN  [transitTime |-> PInt(1), inCapacity |-> PInt(1), outCapacity |-> PInf,
         storage |-> PInf,
         TFC |-> IF type = "general"
                 THEN [resettingEnabled |-> resettingEnabledBool,
                       active |-> activeEnabledBool]
                 ELSE [resettingEnabled |-> resettingEnabledBool,
                       inflowBound |-> PInt(1),
                       active |-> activeEnabledBool]]

\* The attributes on_release gives a new edge.
NewEdgeAttr(type, onlyNTF) ==
    LET resettingEnabledBool == IF onlyNTF THEN "False" ELSE "None"
        activeEnabledBool == IF onlyNTF THEN "True" ELSE "None"
    IN  [transitTime |-> PInt(1), inCapacity |-> PInf, outCapacity |-> PInt(1),
         storage |-> PInf,
         TFC |-> IF type = "general"
                 THEN [resettingEnabled |-> resettingEnabledBool,
                       active |-> activeEnabledBool]
                 ELSE [resettingEnabled |-> resettingEnabledBool,
                       inflowBound |-> PInt(1),
                       active |-> activeEnabledBool]]

\* Python truth value of a mode flag.
Truthy(flag) == flag = "True"

\* ------------------------------------------------------------- edge labels
\* The attribute names get_edge_labels joins (the list attributeList, with
\* 'inflowBound' of the TFC group appended for spillback and onlyNTF).
LabelAttributes(type, onlyNTF) ==
    IF type = "general"
    THEN IF ~onlyNTF THEN <<"outCapacity", "transitTime">> ELSE <<"outCapacity">>
    ELSE IF ~onlyNTF THEN <<"inCapacity", "outCapacity", "storage", "transitTime">>
         ELSE <<"outCapacity", "inflowBound">>

AttrValue(a, name) ==
    CASE name = "outCapacity" -> a.outCapacity
      [] name = "transitTime" -> a.transitTime
      [] name = "inCapacity" -> a.inCapacity
      [] name = "storage" -> a.storage
      [] name = "inflowBound" -> a.TFC.inflowBound

\* Utilities.join_intersect_dicts takes exactly two dictionaries: the call
\* join_intersect_dicts(*attributeList) raises TypeError for any other number.
join_intersect_dicts_raises(n) == n # 2

get_edge_labels_raises(type, onlyNTF) ==
    join_intersect_dicts_raises(Len(LabelAttributes(type, onlyNTF)))

Shorten_truncates(val) ==
    IF val.den # 0 THEN PInt(val.num \div val.den) ELSE val

\* "Integer values should be displayed in shortest possible way"
Shorten(val) ==
    IF val.den # 0 /\ val.num % val.den = 0
    THEN PInt(val.num \div val.den)
    ELSE val

\* The label tuple get_edge_labels gives the edge e (multipleBool is true in
\* every configuration in which the join does not raise).
get_edge_label(G, type, onlyNTF, e) ==
    LET names == LabelAttributes(type, onlyNTF)
    IN  [i \in 1..Len(names) |-> Shorten(AttrValue(G.attr[e], names[i]))]

\* The label tuple update_edges(added=True) first draws for a new edge.
AddedEdgeLabel(G, type, onlyNTF, e) ==
    LET a == G.attr[e]
    IN  IF ~onlyNTF
        THEN IF type = "general"
             THEN <<a.outCapacity, a.transitTime>>
             ELSE <<a.inCapacity, a.outCapacity, a.transitTime, a.storage>>
        ELSE IF type = "general"
             THEN <<a.outCapacity>>
             ELSE <<a.outCapacity, a.TFC.inflowBound>>

\* Twice the midpoint of two positions: the position of an edge label.
LabelPos(p, q) == <<p[1] + q[1], p[2] + q[2]>>

\* Python's  a in b  on two strings: a is a substring of b.
IsSubstring(a, b) ==
    \E i \in 0..(Len(b) - Len(a)) : SubSeq(b, i + 1, i + Len(a)) = a

\* ------------------------------------------------------ ordered dictionaries
\* nodeLabelCollection and edgeLabelCollection: a dict as the sequence of its
\* items [key, handle, text, pos], in insertion order.
DictHas(d, k) == \E i \in 1..Len(d) : d[i].key = k
DictIndex(d, k) == CHOOSE i \in 1..Len(d) : d[i].key = k
DictSet(d, item) ==
    IF DictHas(d, item.key) THEN ReplaceAt(d, DictIndex(d, item.key), item)
    ELSE Append(d, item)
DictPop(d, k) == RemoveAt(d, DictIndex(d, k))

\* --------------------------------------------------------- calls and faults
\* One entry per call into the renderer bookkeeping or the observer, with the
\* focus fields as they are at the time of the call.
Log(c, op, arg) ==
    [c EXCEPT !.calls = Append(@, [op |-> op, arg |-> arg,
                                   focusNode |-> c.focusNode,
                                   focusEdge |-> c.focusEdge])]
Raise(c, what) == [c EXCEPT !.raised = what]
Ok(c) == c.raised = ""
\* The next statement F of a handler: skipped once an exception is raised.
Then(c, F(_)) == IF Ok(c) THEN F(c) ELSE c

draw_idle(c) == Log(c, "draw_idle", None)

\* ------------------------------------------------------------ update_nodes
\* A node group [nodes, handle, colors]: the node list, the primitive handle
\* and the face colours last given to it.  Handles are drawn from nextHandle.
nodeColor(c, v) == IF v # c.focusNode THEN "r" ELSE "b"

FirstGroupWith(groups, v) ==
    LET S == {i \in 1..Len(groups) : InSeq(v, groups[i].nodes)}
    IN  IF S = {} THEN 0 ELSE CHOOSE i \in S : \A j \in S : i <= j

update_nodes_remove_keep(c, moved) ==
    LET v == c.focusNode
    IN  IF ~moved
        THEN IF DictHas(c.nodeLabelCollection, v)
             THEN [c EXCEPT !.nodeLabelCollection = DictPop(@, v)]
             ELSE Raise(c, "KeyError")
        ELSE IF has_node(c.network, v)
             THEN [c EXCEPT
                     !.nodeCollections = Append(@,
                         [nodes |-> <<v>>, handle |-> c.nextHandle,
                          colors |-> <<"b">>]),
                     !.nextHandle = @ + 1]
             ELSE Raise(c, "KeyError")

\* The branch "if removal or moved" of update_nodes.
update_nodes_remove(c, moved) ==
    LET v == c.focusNode
        \* the loop over nodeCollections: v leaves the first group i holding it
        Removed(i, rest) ==
            IF i = 0 THEN c
            ELSE IF rest # <<>>
            THEN [c EXCEPT
                    !.nodeCollections = ReplaceAt(@, i,
                        [nodes |-> rest, handle |-> c.nextHandle,
                         colors |-> [k \in 1..Len(rest) |-> "r"]]),
                    !.nextHandle = @ + 1]
            ELSE [c EXCEPT !.nodeCollections = RemoveAt(@, i)]
        RemovedFrom(i) ==
            Removed(i, IF i = 0 THEN <<>>
                       ELSE SelectSeq(c.nodeCollections[i].nodes, LAMBDA n : n # v))
        Finish(c1) ==
            IF ~moved
            THEN \* self.nodeLabelCollection.pop(self.focusNode)
                 IF DictHas(c1.nodeLabelCollection, v)
                 THEN [c1 EXCEPT !.nodeLabelCollection = DictPop(@, v)]
                 ELSE Raise(c1, "KeyError")
            ELSE \* self.network.nodes[v]['position']
                 IF has_node(c1.network, v)
                 THEN [c1 EXCEPT
                         !.nodeCollections = Append(@,
                             [nodes |-> <<v>>, handle |-> c1.nextHandle,
                              colors |-> <<"b">>]),
                         !.nextHandle = @ + 1]
                 ELSE Raise(c1, "KeyError")
    IN  Finish(RemovedFrom(FirstGroupWith(c.nodeCollections, v)))

\* The branch "elif added".  The test all([focusNode not in entry ...]) looks
\* for the node id among the two members (node list, handle) of each group
\* tuple, so it is always true.
update_nodes_added(c) ==
    IF c.focusNode = None THEN c
    ELSE LET v == c.focusNode
         IN  IF ~has_node(c.network, v) THEN Raise(c, "KeyError")
             ELSE [c EXCEPT
                     !.nodeCollections = Append(@,
                         [nodes |-> <<v>>, handle |-> c.nextHandle,
                          colors |-> <<"r">>]),
                     !.nodeLabelCollection = DictSet(@,
                         [key |-> v, handle |-> c.nextHandle + 1,
                          text |-> c.network.label[v],
                          pos |-> c.network.position[v]]),
                     !.nextHandle = @ + 2]

\* "Update node label texts and positions", from item i on.
RECURSIVE update_node_labels(_, _, _)
update_node_labels(c, moved, i) ==
    IF i > Len(c.nodeLabelCollection) THEN c
    ELSE LET item == c.nodeLabelCollection[i]
             v == item.key
         IN  IF ~has_node(c.network, v) THEN Raise(c, "KeyError")
             ELSE IF item.text # c.network.label[v]
             THEN update_node_labels(
                     [c EXCEPT
                        !.nodeLabelCollection = ReplaceAt(@, i,
                            [key |-> v, handle |-> c.nextHandle,
                             text |-> c.network.label[v],
                             pos |-> c.network.position[v]]),
                        !.nextHandle = @ + 1], moved, i + 1)
             ELSE IF v = c.focusNode /\ moved
             THEN update_node_labels(
                     [c EXCEPT !.nodeLabelCollection[i].pos = c.network.position[v]],
                     moved, i + 1)
             ELSE update_node_labels(c, moved, i + 1)

\* "if color": push the colour list to every group.
update_nodes_color_redraw(c, removal) ==
    LET groups == c.nodeCollections
    IN  [c EXCEPT !.nodeCollections =
            [i \in 1..Len(groups) |->
                [nodes |-> groups[i].nodes, handle |-> c.nextHandle + i - 1,
                 colors |-> [k \in 1..Len(groups[i].nodes) |->
                     IF removal THEN "r" ELSE nodeColor(c, groups[i].nodes[k])]]],
                  !.nextHandle = @ + Len(groups)]

update_nodes_color(c, removal) ==
    LET groups == c.nodeCollections
    IN  [c EXCEPT !.nodeCollections =
            [i \in 1..Len(groups) |->
                [nodes |-> groups[i].nodes, handle |-> groups[i].handle,
                 colors |-> [k \in 1..Len(groups[i].nodes) |->
                     IF removal THEN "r" ELSE nodeColor(c, groups[i].nodes[k])]]]]

update_nodes(c, added, removal, moved, color) ==
    LET Collections(c0) ==
            IF removal \/ moved THEN update_nodes_remove(c0, moved)
            ELSE IF added THEN update_nodes_added(c0)
            ELSE c0
        Labels(c1) == update_node_labels(c1, moved, 1)
        Colors(c2) == IF color THEN update_nodes_color(c2, removal) ELSE c2
    IN  Then(Then(Then(Collections(Log(c, "update_nodes", None)),
                       Labels), Colors), draw_idle)

\* ------------------------------------------------------------ update_edges
\* An edge-line group [edges, handle, colors, lw, nsegs]: the edge list, the
\* primitive handle, the colours and line widths last given to it and the
\* number of set_segments calls it received.  boxCollections and
\* arrowCollections hold the decoration groups at the same indices.
edgeColor_resetfirst(c, v, w) ==
    IF <<v, w>> = c.focusEdge THEN "b"
    ELSE IF c.onlyNTF
    THEN IF Truthy(c.network.attr[<<v, w>>].TFC.resettingEnabled) THEN "r"
         ELSE IF ~Truthy(c.network.attr[<<v, w>>].TFC.active) THEN "gray"
         ELSE "black"
    ELSE "black"

edgeColor(c, v, w) ==
    IF <<v, w>> = c.focusEdge THEN "b"
    ELSE IF c.onlyNTF
    THEN IF ~Truthy(c.network.attr[<<v, w>>].TFC.active) THEN "gray"
         ELSE IF Truthy(c.network.attr[<<v, w>>].TFC.resettingEnabled) THEN "r"
         ELSE "black"
    ELSE "black"

edgeSize(c, v, w) ==
    IF <<v, w>> # c.focusEdge THEN c.edgeWidthSize
    ELSE FAdd(c.edgeWidthSize, Float(1))
boxSize(c, v, w) == IF <<v, w>> # c.focusEdge THEN 1 ELSE 2

\* The three groups draw_edges returns for the edge list es, with handles
\* h, h + 1, h + 2: default colour 'k', width edgeWidthSize.
DrawnEdges(c, es, h) ==
    [line |-> [edges |-> es, handle |-> h,
               colors |-> [k \in 1..Len(es) |-> "k"],
               lw |-> [k \in 1..Len(es) |-> c.edgeWidthSize], nsegs |-> 0],
     box |-> [edges |-> es, handle |-> h + 1,
              colors |-> [k \in 1..Len(es) |-> "k"],
              lw |-> [k \in 1..Len(es) |-> 0]],
     arrow |-> [edges |-> es, handle |-> h + 2,
                colors |-> [k \in 1..Len(es) |-> "k"]]]

pop_edge_labels_keep(c, missing, k) == c

\* "Delete edge labels": the labels of the missing edges, from the k-th on.
RECURSIVE pop_edge_labels(_, _, _)
pop_edge_labels(c, missing, k) ==
    IF k > Len(missing) THEN c
    ELSE IF ~DictHas(c.edgeLabelCollection, missing[k]) THEN Raise(c, "KeyError")
    ELSE pop_edge_labels([c EXCEPT !.edgeLabelCollection = DictPop(@, missing[k])],
                         missing, k + 1)

RECURSIVE DeleteGroups(_, _)
DeleteGroups(groups, del) ==
    IF del = {} THEN groups
    ELSE LET m == CHOOSE i \in del : \A j \in del : j <= i
         IN  DeleteGroups(RemoveAt(groups, m), del \ {m})

\* The loop of the branch "if removal", from group i on; del is toDeleteIndices.
RECURSIVE update_edges_removal(_, _, _)
update_edges_removal(c, i, del) ==
    IF i > Len(c.edgeCollections)
    THEN [c EXCEPT !.edgeCollections = DeleteGroups(@, del),
                   !.boxCollections = DeleteGroups(@, del),
                   !.arrowCollections = DeleteGroups(@, del)]
    ELSE LET es == c.edgeCollections[i].edges
             missingEdges == SelectSeq(es, LAMBDA e : ~has_edge(c.network, e[1], e[2]))
             rest == SelectSeq(es, LAMBDA e : has_edge(c.network, e[1], e[2]))
             d == DrawnEdges(c, rest, c.nextHandle)
             c1 == IF rest # <<>>
                   THEN [c EXCEPT !.edgeCollections = ReplaceAt(@, i, d.line),
                                  !.boxCollections = ReplaceAt(@, i, d.box),
                                  !.arrowCollections = ReplaceAt(@, i, d.arrow),
                                  !.nextHandle = @ + 3]
                   ELSE c
             NextGroup(c2) ==
                 update_edges_removal(c2, i + 1,
                                      IF rest = <<>> THEN del \cup {i} ELSE del)
         IN  IF missingEdges = <<>> THEN update_edges_removal(c, i + 1, del)
             ELSE Then(pop_edge_labels(c1, missingEdges, 1), NextGroup)

\* The branch "elif added".
update_edges_added(c) ==
    IF c.focusEdge = None THEN c
    ELSE LET e == c.focusEdge
             v == e[1]
             w == e[2]
             d == DrawnEdges(c, <<e>>, c.nextHandle)
         IN  IF ~has_node(c.network, v) \/ ~has_node(c.network, w)
                \/ ~has_edge(c.network, v, w)
             THEN Raise(c, "KeyError")
             ELSE [c EXCEPT
                     !.edgeCollections = Append(@, d.line),
                     !.boxCollections = Append(@, d.box),
                     !.arrowCollections = Append(@, d.arrow),
                     !.edgeLabelCollection = DictSet(@,
                         [key |-> e, handle |-> c.nextHandle + 3,
                          text |-> AddedEdgeLabel(c.network, c.type, c.onlyNTF, e),
                          pos |-> LabelPos(c.network.position[v],
                                           c.network.position[w])]),
                     !.nextHandle = @ + 4]

\* The branch "elif moved", from group i on: every edge-line group gets
\* set_segments, and its box group and its arrow group are removed and
\* replaced by new primitives (Utilities.get_boxes, get_arrows_on_edges).
RECURSIVE update_edges_moved(_, _)
update_edges_moved(c, i) ==
    IF i > Len(c.edgeCollections) THEN c
    ELSE LET es == c.edgeCollections[i].edges
         IN  IF \E k \in 1..Len(es) :
                    ~has_node(c.network, es[k][1]) \/ ~has_node(c.network, es[k][2])
             THEN Raise(c, "KeyError")
             ELSE update_edges_moved(
                     [c EXCEPT
                        !.edgeCollections[i].nsegs = @ + 1,
                        !.boxCollections[i] =
                            [edges |-> @.edges, handle |-> c.nextHandle,
                             colors |-> [k \in 1..Len(@.edges) |-> "k"],
                             lw |-> [k \in 1..Len(@.edges) |-> 0]],
                        !.arrowCollections[i] =
                            [edges |-> @.edges, handle |-> c.nextHandle + 1,
                             colors |-> [k \in 1..Len(@.edges) |-> "k"]],
                        !.nextHandle = @ + 2], i + 1)

\* "if color": colours and line widths of every non-empty group.
update_edges_color(c) ==
    LET L == c.edgeCollections
        B == c.boxCollections
        A == c.arrowCollections
        cols(es) == [k \in 1..Len(es) |-> edgeColor(c, es[k][1], es[k][2])]
    IN  IF c.onlyNTF /\ \E i \in 1..Len(L) : \E k \in 1..Len(L[i].edges) :
                L[i].edges[k] # c.focusEdge
                /\ ~has_edge(c.network, L[i].edges[k][1], L[i].edges[k][2])
        THEN Raise(c, "KeyError")
        ELSE [c EXCEPT
                !.edgeCollections = [i \in 1..Len(L) |->
                    IF L[i].edges = <<>> THEN L[i]
                    ELSE [L[i] EXCEPT
                            !.colors = cols(L[i].edges),
                            !.lw = [k \in 1..Len(L[i].edges) |->
                                      edgeSize(c, L[i].edges[k][1], L[i].edges[k][2])]]],
                !.boxCollections = [i \in 1..Len(B) |->
                    IF L[i].edges = <<>> THEN B[i]
                    ELSE [B[i] EXCEPT
                            !.colors = cols(L[i].edges),
                            !.lw = [k \in 1..Len(L[i].edges) |->
                                      boxSize(c, L[i].edges[k][1], L[i].edges[k][2])]]],
                !.arrowCollections = [i \in 1..Len(A) |->
                    IF L[i].edges = <<>> THEN A[i]
                    ELSE [A[i] EXCEPT !.colors = cols(L[i].edges)]]]

\* "Update edge label texts and positions", from item i on.  With a focused
\* node, an item is skipped when neither endpoint id is a substring of the
\* focused node's id (v not in self.focusNode and w not in self.focusNode).
SkipsLabel(c, v, w) ==
    c.focusNode # None /\ ~IsSubstring(v, c.focusNode) /\ ~IsSubstring(w, c.focusNode)

RECURSIVE update_edge_labels(_, _)
update_edge_labels(c, i) ==
    IF i > Len(c.edgeLabelCollection) THEN c
    ELSE LET item == c.edgeLabelCollection[i]
             v == item.key[1]
             w == item.key[2]
         IN  IF SkipsLabel(c, v, w) THEN update_edge_labels(c, i + 1)
             ELSE IF ~has_edge(c.network, v, w) THEN Raise(c, "KeyError")
             ELSE update_edge_labels(
                     [c EXCEPT !.edgeLabelCollection[i] =
                         [key |-> item.key, handle |-> item.handle,
                          text |-> get_edge_label(c.network, c.type, c.onlyNTF, item.key),
                          pos |-> LabelPos(c.network.position[v],
                                           c.network.position[w])]], i + 1)

update_edges(c, added, removal, moved, color) ==
    LET Collections(c0) ==
            IF removal THEN update_edges_removal(c0, 1, {})
            ELSE IF added THEN update_edges_added(c0)
            ELSE IF moved THEN update_edges_moved(c0, 1)
            ELSE c0
        Colors(c1) == IF color THEN update_edges_color(c1) ELSE c1
        Labels(c2) ==
            IF get_edge_labels_raises(c.type, c.onlyNTF)
            THEN Raise(c2, "TypeError")
            ELSE update_edge_labels(c2, 1)
    IN  Then(Then(Then(Collections(Log(c, "update_edges", None)),
                       Colors), Labels), draw_idle)

\* ------------------------------------------------------------------- view
\* The whole part of a non-negative float.
FTrunc(a) == IF a[2] >= 0 THEN a[1] * Pow2(a[2]) ELSE a[1] \div Pow2(-a[2])

zoom_intsizes(c, factor) ==
    LET bigger(val) == FMul(FDiv(Float(1), factor), val)
        smaller(val) == FMul(factor, val)
        L == c.edgeCollections
    IN  draw_idle(
          [c EXCEPT
             !.Xlim = <<bigger(@[1]), bigger(@[2])>>,
             !.Ylim = <<bigger(@[1]), bigger(@[2])>>,
             !.edgeWidthSize = smaller(@),
             !.edgeCollections = [i \in 1..Len(L) |->
                 [L[i] EXCEPT !.lw = [k \in 1..Len(L[i].edges) |->
                                        smaller(c.edgeWidthSize)]]],
             !.nodeLabelFontSize = Float(FTrunc(smaller(@))),
             !.edgeLabelFontSize = Float(FTrunc(smaller(@)))])

zoom_fixedfonts(c, factor) ==
    LET bigger(val) == FMul(FDiv(Float(1), factor), val)
        smaller(val) == FMul(factor, val)
        L == c.edgeCollections
    IN  draw_idle(
          [c EXCEPT
             !.Xlim = <<bigger(@[1]), bigger(@[2])>>,
             !.Ylim = <<bigger(@[1]), bigger(@[2])>>,
             !.edgeWidthSize = smaller(@),
             !.edgeCollections = [i \in 1..Len(L) |->
                 [L[i] EXCEPT !.lw = [k \in 1..Len(L[i].edges) |->
                                        smaller(c.edgeWidthSize)]]],
             !.nodeLabelFontSize = @,
             !.edgeLabelFontSize = @])

\* zoom(factor): the bounds are scaled by 1/factor, the three scale fields
\* by factor, and the new edge width is set on every edge-line group.
zoom(c, factor) ==
    LET bigger(val) == FMul(FDiv(Float(1), factor), val)
        smaller(val) == FMul(factor, val)
        L == c.edgeCollections
    IN  draw_idle(
          [c EXCEPT
             !.Xlim = <<bigger(@[1]), bigger(@[2])>>,
             !.Ylim = <<bigger(@[1]), bigger(@[2])>>,
             !.edgeWidthSize = smaller(@),
             !.edgeCollections = [i \in 1..Len(L) |->
                 [L[i] EXCEPT !.lw = [k \in 1..Len(L[i].edges) |->
                                        smaller(c.edgeWidthSize)]]],
             !.nodeLabelFontSize = smaller(@),
             !.edgeLabelFontSize = smaller(@)])

move_towards(c) ==
    LET dx == FSub(Logical(c.mouseWheelPosition[1]),
                   Logical(c.mouseWheelPressedPosition[1]))
        dy == FSub(Logical(c.mouseWheelPosition[2]),
                   Logical(c.mouseWheelPressedPosition[2]))
    IN  [c EXCEPT !.Xlim = <<FAdd(@[1], dx), FAdd(@[2], dx)>>,
                  !.Ylim = <<FAdd(@[1], dy), FAdd(@[2], dy)>>]

\* move(): the bounds are shifted by the anchor minus the current position.
move(c) ==
    LET dx == FSub(Logical(c.mouseWheelPosition[1]),
                   Logical(c.mouseWheelPressedPosition[1]))
        dy == FSub(Logical(c.mouseWheelPosition[2]),
                   Logical(c.mouseWheelPressedPosition[2]))
    IN  [c EXCEPT !.Xlim = <<FSub(@[1], dx), FSub(@[2], dx)>>,
                  !.Ylim = <<FSub(@[1], dy), FSub(@[2], dy)>>]

\* ---------------------------------------------------------------- handlers
\* A handler takes the canvas c (a record of all fields, with the call log
\* empty) and the event, and returns the canvas as the handler leaves it.
\* An exception (c.raised) ends the handler where it is raised.
Do_update_nodes(c, added, removal, moved, color) ==
    IF Ok(c) THEN update_nodes(c, added, removal, moved, color) ELSE c
Do_update_edges(c, added, removal, moved, color) ==
    IF Ok(c) THEN update_edges(c, added, removal, moved, color) ELSE c
\* A call of the observer (self.interface).
Notify(c, op, arg) == IF Ok(c) THEN Log(c, op, arg) ELSE c

NoCoordinates(event) == event.xdata = None \/ event.ydata = None
Pos(event) == <<event.xdata[1], event.ydata[1]>>

\* The locals of the two hit tests of on_click and on_release.
NoLocals ==
    [tested |-> FALSE, clickedEdge |-> None, clickedNode |-> None,
     newNodeCreated |-> FALSE]

HitTests(c, pos, withEdges) ==
    LET Tested(clickedEdge, r) ==
            [c EXCEPT !.network = r.network,
                      !.locals = [tested |-> TRUE, clickedEdge |-> clickedEdge,
                                  clickedNode |-> r.node,
                                  newNodeCreated |->
                                      r.network.lastID > c.network.lastID]]
        NodeTest(clickedEdge) ==
            Tested(clickedEdge,
                   check_node_clicked(c.network, pos,
                       IF withEdges THEN clickedEdge # None ELSE TRUE))
    IN  NodeTest(IF withEdges THEN check_edge_clicked(c.network, pos) ELSE None)

on_click_left_keepnodefocus(c0) ==
    LET clickedEdge == c0.locals.clickedEdge
        clickedNode == c0.locals.clickedNode
        newNodeCreated == c0.locals.newNodeCreated
    IN  IF clickedEdge # None /\ clickedNode = None
        THEN LET c1 == [c0 EXCEPT !.focusEdge = clickedEdge]
                 c2 == Notify(c1, "update_node_display", None)
                 c3 == Notify(c2, "update_edge_display", None)
                 c4 == Do_update_nodes(c3, FALSE, FALSE, FALSE, TRUE)
             IN  Do_update_edges(c4, FALSE, FALSE, FALSE, TRUE)
        ELSE IF clickedNode # None
        THEN LET c1 == [c0 EXCEPT !.focusNode = clickedNode, !.focusEdge = None]
                 c2 == Do_update_edges(c1, FALSE, FALSE, FALSE, TRUE)
                 c3 == Notify(c2, "update_edge_display", None)
                 c4 == Then(c3, LAMBDA x : [x EXCEPT !.selectedNode = clickedNode])
                 c5 == Do_update_nodes(c4, newNodeCreated, FALSE, FALSE, TRUE)
             IN  Then(c5, LAMBDA x :
                        IF newNodeCreated
                        THEN Log(x, "add_node_to_list", x.focusNode)
                        ELSE x)
        ELSE c0

on_click_left_edgefirst(c0) ==
    LET clickedEdge == c0.locals.clickedEdge
        clickedNode == c0.locals.clickedNode
        newNodeCreated == c0.locals.newNodeCreated
    IN  IF clickedEdge # None
        THEN LET c1 == [c0 EXCEPT !.focusEdge = clickedEdge, !.focusNode = None]
                 c2 == Notify(c1, "update_node_display", None)
                 c3 == Notify(c2, "update_edge_display", None)
                 c4 == Do_update_nodes(c3, FALSE, FALSE, FALSE, TRUE)
             IN  Do_update_edges(c4, FALSE, FALSE, FALSE, TRUE)
        ELSE IF clickedNode # None
        THEN LET c1 == [c0 EXCEPT !.focusNode = clickedNode, !.focusEdge = None]
                 c2 == Do_update_edges(c1, FALSE, FALSE, FALSE, TRUE)
                 c3 == Notify(c2, "update_edge_display", None)
                 c4 == Then(c3, LAMBDA x : [x EXCEPT !.selectedNode = clickedNode])
                 c5 == Do_update_nodes(c4, newNodeCreated, FALSE, FALSE, TRUE)
             IN  Then(c5, LAMBDA x :
                        IF newNodeCreated
                        THEN Log(x, "add_node_to_list", x.focusNode)
                        ELSE x)
        ELSE c0

on_click_left_deselect(c0) ==
    LET clickedEdge == c0.locals.clickedEdge
        clickedNode == c0.locals.clickedNode
        newNodeCreated == c0.locals.newNodeCreated
    IN  IF clickedEdge # None /\ clickedNode = None
        THEN LET c1 == [c0 EXCEPT !.focusEdge = clickedEdge, !.focusNode = None]
                 c2 == Notify(c1, "update_node_display", None)
                 c3 == Notify(c2, "update_edge_display", None)
                 c4 == Do_update_nodes(c3, FALSE, FALSE, FALSE, TRUE)
             IN  Do_update_edges(c4, FALSE, FALSE, FALSE, TRUE)
        ELSE IF clickedNode # None
        THEN LET c1 == [c0 EXCEPT !.focusNode = clickedNode, !.focusEdge = None]
                 c2 == Do_update_edges(c1, FALSE, FALSE, FALSE, TRUE)
                 c3 == Notify(c2, "update_edge_display", None)
                 c4 == Then(c3, LAMBDA x : [x EXCEPT !.selectedNode = clickedNode])
                 c5 == Do_update_nodes(c4, newNodeCreated, FALSE, FALSE, TRUE)
             IN  Then(c5, LAMBDA x :
                        IF newNodeCreated
                        THEN Log(x, "add_node_to_list", x.focusNode)
                        ELSE x)
        ELSE [c0 EXCEPT !.focusNode = None, !.focusEdge = None]

on_click_left_alwaysregister(c0) ==
    LET clickedEdge == c0.locals.clickedEdge
        clickedNode == c0.locals.clickedNode
        newNodeCreated == c0.locals.newNodeCreated
    IN  IF clickedEdge # None /\ clickedNode = None
        THEN LET c1 == [c0 EXCEPT !.focusEdge = clickedEdge, !.focusNode = None]
                 c2 == Notify(c1, "update_node_display", None)
                 c3 == Notify(c2, "update_edge_display", None)
                 c4 == Do_update_nodes(c3, FALSE, FALSE, FALSE, TRUE)
             IN  Do_update_edges(c4, FALSE, FALSE, FALSE, TRUE)
        ELSE IF clickedNode # None
        THEN LET c1 == [c0 EXCEPT !.focusNode = clickedNode, !.focusEdge = None]
                 c2 == Do_update_edges(c1, FALSE, FALSE, FALSE, TRUE)
                 c3 == Notify(c2, "update_edge_display", None)
                 c4 == Then(c3, LAMBDA x : [x EXCEPT !.selectedNode = clickedNode])
                 c5 == Do_update_nodes(c4, newNodeCreated, FALSE, FALSE, TRUE)
             IN  Then(c5, LAMBDA x : Log(x, "add_node_to_list", x.focusNode))
        ELSE c0

on_click_left(c0) ==
    LET clickedEdge == c0.locals.clickedEdge
        clickedNode == c0.locals.clickedNode
        newNodeCreated == c0.locals.newNodeCreated
    IN  IF clickedEdge # None /\ clickedNode = None
        THEN LET c1 == [c0 EXCEPT !.focusEdge = clickedEdge, !.focusNode = None]
                 c2 == Notify(c1, "update_node_display", None)
                 c3 == Notify(c2, "update_edge_display", None)
                 c4 == Do_update_nodes(c3, FALSE, FALSE, FALSE, TRUE)
             IN  Do_update_edges(c4, FALSE, FALSE, FALSE, TRUE)
        ELSE IF clickedNode # None
        THEN LET c1 == [c0 EXCEPT !.focusNode = clickedNode, !.focusEdge = None]
                 c2 == Do_update_edges(c1, FALSE, FALSE, FALSE, TRUE)
                 c3 == Notify(c2, "update_edge_display", None)
                 c4 == Then(c3, LAMBDA x : [x EXCEPT !.selectedNode = clickedNode])
                 c5 == Do_update_nodes(c4, newNodeCreated, FALSE, FALSE, TRUE)
             IN  Then(c5, LAMBDA x :
                        IF newNodeCreated
                        THEN Log(x, "add_node_to_list", x.focusNode)
                        ELSE x)
        ELSE c0

on_click_right(c0) ==
    LET clickedNode == c0.locals.clickedNode
    IN  IF clickedNode # None
        THEN LET c1 == [c0 EXCEPT !.selectedNode = clickedNode,
                                  !.mouseRightPressed = TRUE,
                                  !.focusNode = clickedNode,
                                  !.focusEdge = None]
                 c2 == Do_update_edges(c1, FALSE, FALSE, FALSE, TRUE)
                 c3 == Do_update_nodes(c2, FALSE, FALSE, FALSE, TRUE)
                 c4 == Notify(c3, "update_edge_display", None)
             IN  Notify(c4, "update_node_display", None)
        ELSE c0

on_click_rightcreates(c, event) ==
    IF NoCoordinates(event) THEN c
    ELSE IF event.button = 1 THEN on_click_left(HitTests(c, Pos(event), TRUE))
    ELSE IF event.button = 2
    THEN [c EXCEPT !.mouseWheelPressed = TRUE,
                   !.mouseWheelPressedPosition = Pos(event)]
    ELSE IF event.button = 3 THEN on_click_right(HitTests(c, Pos(event), TRUE))
    ELSE c

on_click(c, event) ==
    IF NoCoordinates(event) THEN c
    ELSE IF event.button = 1 THEN on_click_left(HitTests(c, Pos(event), TRUE))
    ELSE IF event.button = 2
    THEN [c EXCEPT !.mouseWheelPressed = TRUE,
                   !.mouseWheelPressedPosition = Pos(event)]
    ELSE IF event.button = 3 THEN on_click_right(HitTests(c, Pos(event), FALSE))
    ELSE c

on_release_add_edge_selfloop(c) ==
    LET clickedNode == c.locals.clickedNode
    IN  IF ~Ok(c) THEN c
        ELSE IF c.selectedNode # None
                /\ ~has_edge(c.network, c.selectedNode, clickedNode)
        THEN LET c1 == [c EXCEPT
                          !.network = add_edge(@, c.selectedNode, clickedNode,
                                               NewEdgeAttr(c.type, c.onlyNTF)),
                          !.focusEdge = <<c.selectedNode, clickedNode>>,
                          !.focusNode = None]
                 c2 == Notify(c1, "update_edge_display", None)
                 c3 == Do_update_edges(c2, TRUE, FALSE, FALSE, TRUE)
             IN  Then(c3, LAMBDA x : Log(x, "add_edge_to_list", x.focusEdge))
        ELSE c

on_release_add_edge_focusreversed(c) ==
    LET clickedNode == c.locals.clickedNode
    IN  IF ~Ok(c) THEN c
        ELSE IF c.selectedNode # None /\ c.selectedNode # clickedNode
                /\ ~has_edge(c.network, c.selectedNode, clickedNode)
        THEN LET c1 == [c EXCEPT
                          !.network = add_edge(@, c.selectedNode, clickedNode,
                                               NewEdgeAttr(c.type, c.onlyNTF)),
                          !.focusEdge = <<c.selectedNode, clickedNode>>,
                          !.focusNode = None]
                 c2 == Notify(c1, "update_edge_display", None)
                 c3 == Do_update_edges(c2, TRUE, FALSE, FALSE, TRUE)
                 c4 == Then(c3, LAMBDA x : Log(x, "add_edge_to_list", x.focusEdge))
             IN  [c4 EXCEPT !.focusEdge = <<clickedNode, c.selectedNode>>]
        ELSE c

on_release_add_edge_reversed(c) ==
    LET clickedNode == c.locals.clickedNode
    IN  IF ~Ok(c) THEN c
        ELSE IF c.selectedNode # None /\ c.selectedNode # clickedNode
                /\ ~has_edge(c.network, clickedNode, c.selectedNode)
        THEN LET c1 == [c EXCEPT
                          !.network = add_edge(@, clickedNode, c.selectedNode,
                                               NewEdgeAttr(c.type, c.onlyNTF)),
                          !.focusEdge = <<clickedNode, c.selectedNode>>,
                          !.focusNode = None]
                 c2 == Notify(c1, "update_edge_display", None)
                 c3 == Do_update_edges(c2, TRUE, FALSE, FALSE, TRUE)
             IN  Then(c3, LAMBDA x : Log(x, "add_edge_to_list", x.focusEdge))
        ELSE c

\* The edge-creating part of on_release: "Add the corresponding edge, if valid".
on_release_add_edge(c) ==
    LET clickedNode == c.locals.clickedNode
    IN  IF ~Ok(c) THEN c
        ELSE IF c.selectedNode # None /\ c.selectedNode # clickedNode
                /\ ~has_edge(c.network, c.selectedNode, clickedNode)
        THEN LET c1 == [c EXCEPT
                          !.network = add_edge(@, c.selectedNode, clickedNode,
                                               NewEdgeAttr(c.type, c.onlyNTF)),
                          !.focusEdge = <<c.selectedNode, clickedNode>>,
                          !.focusNode = None]
                 c2 == Notify(c1, "update_edge_display", None)
                 c3 == Do_update_edges(c2, TRUE, FALSE, FALSE, TRUE)
             IN  Then(c3, LAMBDA x : Log(x, "add_edge_to_list", x.focusEdge))
        ELSE c

on_release_left_resetonhit(c0) ==
    LET clickedNode == c0.locals.clickedNode
        newNodeCreated == c0.locals.newNodeCreated
        c1 == IF clickedNode # None /\ newNodeCreated
              THEN LET d1 == [c0 EXCEPT !.focusNode = clickedNode]
                       d2 == Do_update_nodes(d1, TRUE, FALSE, FALSE, TRUE)
                       d3 == Notify(d2, "add_node_to_list", clickedNode)
                   IN  Then(d3, LAMBDA x : [x EXCEPT !.focusNode = None])
              ELSE c0
        c2 == Then(c1, LAMBDA x :
                     IF clickedNode # None THEN on_release_add_edge(x) ELSE x)
        c3 == Then(c2, LAMBDA x : IF clickedNode # None
                                THEN [x EXCEPT !.selectedNode = None] ELSE x)
        c4 == Do_update_nodes(c3, FALSE, FALSE, FALSE, TRUE)
    IN  Notify(c4, "update_node_display", None)

on_release_left(c0) ==
    LET clickedNode == c0.locals.clickedNode
        newNodeCreated == c0.locals.newNodeCreated
        c1 == IF clickedNode # None /\ newNodeCreated
              THEN LET d1 == [c0 EXCEPT !.focusNode = clickedNode]
                       d2 == Do_update_nodes(d1, TRUE, FALSE, FALSE, TRUE)
                       d3 == Notify(d2, "add_node_to_list", clickedNode)
                   IN  Then(d3, LAMBDA x : [x EXCEPT !.focusNode = None])
              ELSE c0
        c2 == Then(c1, LAMBDA x :
                     IF clickedNode # None THEN on_release_add_edge(x) ELSE x)
        c3 == Then(c2, LAMBDA x : [x EXCEPT !.selectedNode = None])
        c4 == Do_update_nodes(c3, FALSE, FALSE, FALSE, TRUE)
    IN  Notify(c4, "update_node_display", None)

on_release_abort(c, event) ==
    IF NoCoordinates(event)
    THEN [c EXCEPT !.selectedNode = None, !.mouseRightPressed = FALSE,
                   !.mouseWheelPressed = FALSE, !.mouseWheelPressedPosition = None]
    ELSE IF event.button = 1 THEN on_release_left(HitTests(c, Pos(event), TRUE))
    ELSE IF event.button = 2
    THEN [c EXCEPT !.mouseWheelPressed = FALSE,
                   !.mouseWheelPressedPosition = None]
    ELSE IF event.button = 3
    THEN [c EXCEPT !.mouseRightPressed = FALSE, !.selectedNode = None]
    ELSE c

on_release_keepsmove(c, event) ==
    IF NoCoordinates(event) THEN c
    ELSE IF event.button = 1 THEN on_release_left(HitTests(c, Pos(event), TRUE))
    ELSE IF event.button = 2
    THEN [c EXCEPT !.mouseWheelPressed = FALSE,
                   !.mouseWheelPressedPosition = None]
    ELSE IF event.button = 3
    THEN [c EXCEPT !.selectedNode = None]
    ELSE c

on_release(c, event) ==
    IF NoCoordinates(event) THEN c
    ELSE IF event.button = 1 THEN on_release_left(HitTests(c, Pos(event), TRUE))
    ELSE IF event.button = 2
    THEN [c EXCEPT !.mouseWheelPressed = FALSE,
                   !.mouseWheelPressedPosition = None]
    ELSE IF event.button = 3
    THEN [c EXCEPT !.mouseRightPressed = FALSE, !.selectedNode = None]
    ELSE c

on_motion_movefirst(c, event) ==
    IF NoCoordinates(event) THEN c
    ELSE IF c.mouseRightPressed /\ c.selectedNode # None
    THEN IF ~has_node(c.network, c.selectedNode) THEN Raise(c, "KeyError")
         ELSE LET c1 == [c EXCEPT !.network.position[c.selectedNode] = Pos(event)]
                  c2 == Do_update_nodes(c1, FALSE, FALSE, TRUE, TRUE)
                  c3 == Do_update_edges(c2, FALSE, FALSE, TRUE, FALSE)
              IN  Notify(c3, "update_node_display", None)
    ELSE IF c.mouseWheelPressed /\ c.mouseWheelPressedPosition # None
    THEN draw_idle(move([c EXCEPT !.mouseWheelPosition = Pos(event)]))
    ELSE c

on_motion(c, event) ==
    IF NoCoordinates(event) THEN c
    ELSE IF c.mouseWheelPressed /\ c.mouseWheelPressedPosition # None
    THEN draw_idle(move([c EXCEPT !.mouseWheelPosition = Pos(event)]))
    ELSE IF c.mouseRightPressed /\ c.selectedNode # None
    THEN IF ~has_node(c.network, c.selectedNode) THEN Raise(c, "KeyError")
         ELSE LET c1 == [c EXCEPT !.network.position[c.selectedNode] = Pos(event)]
                  c2 == Do_update_nodes(c1, FALSE, FALSE, TRUE, TRUE)
                  c3 == Do_update_edges(c2, FALSE, FALSE, TRUE, FALSE)
              IN  Notify(c3, "update_node_display", None)
    ELSE c

\* sFactor = 1 - 0.1 and bFactor = 1. / sFactor
sFactor == FSub(Float(1), FDiv(Float(1), Float(10)))
bFactor == FDiv(Float(1), sFactor)

on_scroll(c, event) ==
    IF NoCoordinates(event) THEN c
    ELSE zoom(c, IF event.button = "up" THEN bFactor ELSE sFactor)

\* ------------------------------------------------------------------- state
VARIABLES
    type, onlyNTF,              \* configuration, fixed at construction
    network,                    \* the graph, with graph['lastID']
    focusNode, focusEdge, selectedNode,
    mouseWheelPressed, mouseWheelPressedPosition, mouseWheelPosition,
    mouseRightPressed,
    Xlim, Ylim, edgeWidthSize, nodeLabelFontSize, edgeLabelFontSize,
    nodeCollections, nodeLabelCollection,
    edgeCollections, boxCollections, arrowCollections, edgeLabelCollection,
    nextHandle,                 \* the renderer's next fresh primitive handle
    ev,                         \* the event handled last
    locals,                     \* hit-test results of the handler that ran last
    calls,                      \* renderer / observer calls of that handler
    raised,                     \* the exception that ended it, "" for none
    nEvents                     \* number of events handled so far

progVars ==
    <<type, onlyNTF, network, focusNode, focusEdge, selectedNode,
      mouseWheelPressed, mouseWheelPressedPosition, mouseWheelPosition,
      mouseRightPressed, Xlim, Ylim, edgeWidthSize, nodeLabelFontSize,
      edgeLabelFontSize, nodeCollections, nodeLabelCollection, edgeCollections,
      boxCollections, arrowCollections, edgeLabelCollection, nextHandle>>

vars == <<progVars, ev, locals, calls, raised, nEvents>>

\* The canvas as a handler finds it.
Canvas ==
    [type |-> type, onlyNTF |-> onlyNTF, network |-> network,
     focusNode |-> focusNode, focusEdge |-> focusEdge,
     selectedNode |-> selectedNode,
     mouseWheelPressed |-> mouseWheelPressed,
     mouseWheelPressedPosition |-> mouseWheelPressedPosition,
     mouseWheelPosition |-> mouseWheelPosition,
     mouseRightPressed |-> mouseRightPressed,
     Xlim |-> Xlim, Ylim |-> Ylim, edgeWidthSize |-> edgeWidthSize,
     nodeLabelFontSize |-> nodeLabelFontSize,
     edgeLabelFontSize |-> edgeLabelFontSize,
     nodeCollections |-> nodeCollections,
     nodeLabelCollection |-> nodeLabelCollection,
     edgeCollections |-> edgeCollections, boxCollections |-> boxCollections,
     arrowCollections |-> arrowCollections,
     edgeLabelCollection |-> edgeLabelCollection,
     nextHandle |-> nextHandle,
     locals |-> NoLocals, calls |-> <<>>, raised |-> ""]

\* The canvas as a handler leaves it.
Becomes(c) ==
    /\ type' = c.type
    /\ onlyNTF' = c.onlyNTF
    /\ network' = c.network
    /\ focusNode' = c.focusNode
    /\ focusEdge' = c.focusEdge
    /\ selectedNode' = c.selectedNode
    /\ mouseWheelPressed' = c.mouseWheelPressed
    /\ mouseWheelPressedPosition' = c.mouseWheelPressedPosition
    /\ mouseWheelPosition' = c.mouseWheelPosition
    /\ mouseRightPressed' = c.mouseRightPressed
    /\ Xlim' = c.Xlim
    /\ Ylim' = c.Ylim
    /\ edgeWidthSize' = c.edgeWidthSize
    /\ nodeLabelFontSize' = c.nodeLabelFontSize
    /\ edgeLabelFontSize' = c.edgeLabelFontSize
    /\ nodeCollections' = c.nodeCollections
    /\ nodeLabelCollection' = c.nodeLabelCollection
    /\ edgeCollections' = c.edgeCollections
    /\ boxCollections' = c.boxCollections
    /\ arrowCollections' = c.arrowCollections
    /\ edgeLabelCollection' = c.edgeLabelCollection
    /\ nextHandle' = c.nextHandle
    /\ locals' = c.locals
    /\ calls' = c.calls
    /\ raised' = c.raised

\* ------------------------------------------------------------ construction
\* init_plot: one node group with all nodes, one label per node, one edge
\* group (with its box and arrow groups) with all edges if there is an edge,
\* one label per edge.
init_plot(c) ==
    LET G == c.network
        ns == G.nodes
        es == edges(G)
        h == c.nextHandle
        d == DrawnEdges(c, es, h + 1 + Len(ns))
        hl == h + 1 + Len(ns) + (IF es = <<>> THEN 0 ELSE 3)
        cols == [k \in 1..Len(es) |-> edgeColor(c, es[k][1], es[k][2])]
    IN  draw_idle(
          [c EXCEPT
             !.nodeCollections =
                 <<[nodes |-> ns, handle |-> h,
                    colors |-> [k \in 1..Len(ns) |-> nodeColor(c, ns[k])]]>>,
             !.nodeLabelCollection =
                 [k \in 1..Len(ns) |->
                     [key |-> ns[k], handle |-> h + k, text |-> G.label[ns[k]],
                      pos |-> G.position[ns[k]]]],
             !.edgeCollections =
                 IF es = <<>> THEN <<>> ELSE <<[d.line EXCEPT !.colors = cols]>>,
             !.boxCollections =
                 IF es = <<>> THEN <<>> ELSE <<[d.box EXCEPT !.colors = cols]>>,
             !.arrowCollections =
                 IF es = <<>> THEN <<>> ELSE <<[d.arrow EXCEPT !.colors = cols]>>,
             !.edgeLabelCollection =
                 [k \in 1..Len(es) |->
                     [key |-> es[k], handle |-> hl + k - 1,
                      text |-> get_edge_label(G, c.type, c.onlyNTF, es[k]),
                      pos |-> LabelPos(G.position[es[k][1]],
                                       G.position[es[k][2]])]],
             !.nextHandle = hl + Len(es)])

\* __init__, up to the call of init_plot.
stretchFactor == FDiv(Float(157), Float(100))

Constructed(graph, ty, ntf) ==
    [type |-> ty, onlyNTF |-> ntf, network |-> graph,
     focusNode |-> None, focusEdge |-> None, selectedNode |-> None,
     mouseWheelPressed |-> FALSE, mouseWheelPressedPosition |-> None,
     mouseWheelPosition |-> None, mouseRightPressed |-> FALSE,
     Xlim |-> <<FMul(stretchFactor, Float(-sqSize)),
                FMul(stretchFactor, Float(sqSize))>>,
     Ylim |-> <<Float(-sqSize), Float(sqSize)>>,
     edgeWidthSize |-> Float(edgeWidthSize0),
     nodeLabelFontSize |-> Float(nodeLabelFontSize0),
     edgeLabelFontSize |-> Float(edgeLabelFontSize0),
     nodeCollections |-> <<>>, nodeLabelCollection |-> <<>>,
     edgeCollections |-> <<>>, boxCollections |-> <<>>,
     arrowCollections |-> <<>>, edgeLabelCollection |-> <<>>,
     nextHandle |-> 1,
     locals |-> NoLocals, calls |-> <<>>, raised |-> ""]

\* The graphs handed to the constructor: the empty graph, the two terminals
\* s and t, s and t joined by an edge with the default attributes, and s and
\* t joined by an edge in each direction, where the edge (t,s) carries any
\* setting of the two mode flags in restricted view; and s and t joined by an
\* edge (s,t) whose attributes are floats (an integral out-capacity 2.0, a
\* transit time 1.5 and, for spillback, an inflow bound 2.5) and an edge (t,s)
\* of infinite out-capacity and inflow bound.
ModeFlags(ntf) ==
    IF ntf THEN {<<r, a>> : r \in {"False", "True"}, a \in {"False", "True"}}
    ELSE {<<"None", "None">>}

WithFlags(a, flags) ==
    [a EXCEPT !.TFC.resettingEnabled = flags[1], !.TFC.active = flags[2]]

NodeS == <<"s">>
NodeT == <<"t">>
AtS == <<U(-50), U(0)>>
AtT == <<U(50), U(0)>>

GraphST ==
    [nodes |-> <<NodeS, NodeT>>,
     position |-> (NodeS :> AtS) @@ (NodeT :> AtT),
     label |-> (NodeS :> NodeS) @@ (NodeT :> NodeT),
     adj |-> (NodeS :> <<>>) @@ (NodeT :> <<>>),
     attr |-> EmptyDict, lastID |-> 0]

FloatEdgeAttr(ty, ntf) ==
    LET a == NewEdgeAttr(ty, ntf)
    IN  [a EXCEPT !.outCapacity = PFloat(2, 1), !.transitTime = PFloat(3, 2),
                  !.TFC = IF ty = "general" THEN @
                          ELSE [@ EXCEPT !.inflowBound = PFloat(5, 2)]]

UnboundedEdgeAttr(ty, ntf) ==
    LET a == NewEdgeAttr(ty, ntf)
    IN  [a EXCEPT !.outCapacity = PInf,
                  !.TFC = IF ty = "general" THEN @
                          ELSE [@ EXCEPT !.inflowBound = PInf]]

InitGraphs(ty, ntf) ==
    {EmptyGraph, GraphST, add_edge(GraphST, NodeS, NodeT, NewEdgeAttr(ty, ntf)),
     add_edge(add_edge(GraphST, NodeS, NodeT, FloatEdgeAttr(ty, ntf)),
              NodeT, NodeS, UnboundedEdgeAttr(ty, ntf))}
      \cup {add_edge(add_edge(GraphST, NodeS, NodeT, NewEdgeAttr(ty, ntf)),
                     NodeT, NodeS, WithFlags(NewEdgeAttr(ty, ntf), flags)) :
              flags \in ModeFlags(ntf)}

\* The configurations whose construction does not raise: init_plot calls
\* get_edge_labels.
Configurations ==
    {cf \in [type : {"general", "spillback"}, onlyNTF : BOOLEAN] :
        ~get_edge_labels_raises(cf.type, cf.onlyNTF)}

NoEvent == [xdata |-> None, ydata |-> None, button |-> 0]

\* The variables at the end of the constructor that leaves the canvas c.
Starts(c) ==
    /\ type = c.type
    /\ onlyNTF = c.onlyNTF
    /\ network = c.network
    /\ focusNode = c.focusNode
    /\ focusEdge = c.focusEdge
    /\ selectedNode = c.selectedNode
    /\ mouseWheelPressed = c.mouseWheelPressed
    /\ mouseWheelPressedPosition = c.mouseWheelPressedPosition
    /\ mouseWheelPosition = c.mouseWheelPosition
    /\ mouseRightPressed = c.mouseRightPressed
    /\ Xlim = c.Xlim
    /\ Ylim = c.Ylim
    /\ edgeWidthSize = c.edgeWidthSize
    /\ nodeLabelFontSize = c.nodeLabelFontSize
    /\ edgeLabelFontSize = c.edgeLabelFontSize
    /\ nodeCollections = c.nodeCollections
    /\ nodeLabelCollection = c.nodeLabelCollection
    /\ edgeCollections = c.edgeCollections
    /\ boxCollections = c.boxCollections
    /\ arrowCollections = c.arrowCollections
    /\ edgeLabelCollection = c.edgeLabelCollection
    /\ nextHandle = c.nextHandle
    /\ locals = c.locals
    /\ calls = c.calls
    /\ raised = c.raised
    /\ ev = [kind |-> "init", event |-> NoEvent]
    /\ nEvents = 0

Init ==
    \E cf \in Configurations : \E graph \in InitGraphs(cf.type, cf.onlyNTF) :
        Starts(init_plot(Constructed(graph, cf.type, cf.onlyNTF)))

\* ------------------------------------------------------------------ events
\* Pointer positions (in halves): on s, within the threshold of t, in the
\* dead zone of t, on the segment s-t far from both, and far from everything
\* with fractional, negative coordinates.
NearT == <<91, 1>>
DeadT == <<U(50), U(15)>>
Mid == <<U(0), U(5)>>
Far == <<-1, -121>>
Points == {AtS, NearT, DeadT, Mid, Far}

At(p, b) == [xdata |-> <<p[1]>>, ydata |-> <<p[2]>>, button |-> b]
Outside(b) == [xdata |-> None, ydata |-> None, button |-> b]

ButtonEvents == {At(p, b) : p \in Points, b \in 1..3} \cup {Outside(b) : b \in 1..3}
MotionEvents == {At(p, 0) : p \in Points} \cup {Outside(0)}
ScrollEvents == {At(Mid, b) : b \in {"up", "down"}} \cup {Outside("up")}

Handled(kind, event, c) ==
    /\ nEvents < MaxEvents
    /\ Becomes(c)
    /\ ev' = [kind |-> kind, event |-> event]
    /\ nEvents' = nEvents + 1

Press == \E event \in ButtonEvents : Handled("press", event, on_click(Canvas, event))
Release == \E event \in ButtonEvents : Handled("release", event, on_release(Canvas, event))
Motion == \E event \in MotionEvents : Handled("motion", event, on_motion(Canvas, event))
Scroll == \E event \in ScrollEvents : Handled("scroll", event, on_scroll(Canvas, event))

Next == Press \/ Release \/ Motion \/ Scroll

Spec == Init /\ [][Next]_vars

\* ------------------------------------------------------------ longer ids
\* The canvas built for a graph of a longer session: the nodes '0' and '1',
\* joined by the edge ('0','1'), and the node '10' off the edge, with the
\* next id 11; under the events of Spec.
Node0 == <<"0">>
Node1 == <<"1">>
Node10 == <<"1", "0">>
GraphIds(ty, ntf) ==
    add_edge([nodes |-> <<Node0, Node1, Node10>>,
              position |-> (Node0 :> AtS) @@ (Node1 :> AtT)
                             @@ (Node10 :> <<U(0), U(-60)>>),
              label |-> (Node0 :> Node0) @@ (Node1 :> Node1) @@ (Node10 :> Node10),
              adj |-> (Node0 :> <<>>) @@ (Node1 :> <<>>) @@ (Node10 :> <<>>),
              attr |-> EmptyDict, lastID |-> 11],
             Node0, Node1, NewEdgeAttr(ty, ntf))

InitIds ==
    \E cf \in Configurations :
        Starts(init_plot(Constructed(GraphIds(cf.type, cf.onlyNTF),
                                     cf.type, cf.onlyNTF)))

SpecIds == InitIds /\ [][Next]_vars

\* ----------------------------------------------------------------- removal
\* The owner of the canvas deletes the focused element: it removes it from
\* the graph and runs the removal updates of the canvas.  It does so between
\* gestures (no node is selected); these calls are not input events.
delete_node(c) ==
    LET c1 == [c EXCEPT !.network = remove_node(@, c.focusNode)]
        c2 == Do_update_nodes(c1, FALSE, TRUE, FALSE, FALSE)
    IN  Do_update_edges(c2, FALSE, TRUE, FALSE, FALSE)

delete_edge(c) ==
    Do_update_edges(
        [c EXCEPT !.network = remove_edge(@, c.focusEdge[1], c.focusEdge[2])],
        FALSE, TRUE, FALSE, FALSE)

Requested(kind, c) ==
    /\ selectedNode = None
    /\ Becomes(c)
    /\ ev' = [kind |-> kind, event |-> NoEvent]
    /\ UNCHANGED nEvents

DeleteNode ==
    /\ focusNode # None
    /\ has_node(network, focusNode)
    /\ Requested("delete_node", delete_node(Canvas))

DeleteEdge ==
    /\ focusEdge # None
    /\ has_edge(network, focusEdge[1], focusEdge[2])
    /\ Requested("delete_edge", delete_edge(Canvas))

\* A removal update run once more, for the element that is already gone.
RepeatNodeRemoval ==
    /\ focusNode # None
    /\ ~has_node(network, focusNode)
    /\ Requested("update_nodes_removal",
                 update_nodes(Canvas, FALSE, TRUE, FALSE, FALSE))

RepeatEdgeRemoval ==
    /\ focusEdge # None
    /\ ~has_edge(network, focusEdge[1], focusEdge[2])
    /\ Requested("update_edges_removal",
                 update_edges(Canvas, FALSE, TRUE, FALSE, FALSE))

NextRemoval ==
    Next \/ DeleteNode \/ DeleteEdge \/ RepeatNodeRemoval \/ RepeatEdgeRemoval

SpecRemoval == Init /\ [][NextRemoval]_vars

\* ================================================================== claims
\* Vocabulary of the claims.  An event "at p" has both coordinates.
Primary(e, kind) == e.kind = kind /\ ~NoCoordinates(e.event) /\ e.event.button = 1
Called(log, op) == \E i \in 1..Len(log) : log[i].op = op
CalledWith(log, op, arg) == \E i \in 1..Len(log) : log[i].op = op /\ log[i].arg = arg
NodesWithin(G, p, d2) == {v \in Range(G.nodes) : Dist2(p, G.position[v]) <= d2}

\* Distance from p to the segment a-b at most SIMILARITY_DIST, by the cross
\* product (end points clamped).
NearSegment(p, a, b) ==
    LET bx == b[1] - a[1]
        by == b[2] - a[2]
        mx == p[1] - a[1]
        my == p[2] - a[2]
        bb == Sq(bx) + Sq(by)
        dot == mx * bx + my * by
    IN  IF bb = 0 \/ dot <= 0 THEN Dist2(p, a) <= Sim2
        ELSE IF dot >= bb THEN Dist2(p, b) <= Sim2
        ELSE Sq(mx * by - my * bx) <= Sim2 * bb

EdgesNear(G, p) ==
    {e \in Range(edges(G)) : NearSegment(p, G.position[e[1]], G.position[e[2]])}

\* q is h truncated toward zero to whole logical units (both in halves).
Truncated(h, q) ==
    /\ q % 2 = 0
    /\ Abs(q) <= Abs(h)
    /\ Abs(h) - Abs(q) < 2
    /\ (q = 0 \/ (q > 0) = (h > 0))

\* ---- C1 (as claimed; refuted by on_release, which calls update_nodes and
\* add_node_to_list with focusNode set to the new node before focusEdge or
\* focusNode is cleared): at every event boundary and at every renderer or
\* observer call inside a handler, at most one of focusNode and focusEdge is
\* non-null.
C1_FocusExclusiveAtCalls ==
    /\ focusNode = None \/ focusEdge = None
    /\ \A i \in 1..Len(calls) : calls[i].focusNode = None \/ calls[i].focusEdge = None

\* ---- C2: a primary press or release at a point farther than
\* 2*SIMILARITY_DIST from every node and not within SIMILARITY_DIST of any
\* edge adds exactly one node: id str(lastID), unused before, at the truncated
\* point, labelled with its id; lastID grows by one; nothing raises.
C2_FarClickCreatesNode ==
    [][ \A kind \in {"press", "release"} :
          (/\ Primary(ev', kind)
           /\ NodesWithin(network, Pos(ev'.event), TwoSim2) = {}
           /\ EdgesNear(network, Pos(ev'.event)) = {})
          => LET id == str(network.lastID)
                 p == Pos(ev'.event)
             IN  /\ ~has_node(network, id)
                 /\ network'.nodes = Append(network.nodes, id)
                 /\ \A v \in Range(network.nodes) :
                       /\ network'.position[v] = network.position[v]
                       /\ network'.label[v] = network.label[v]
                 /\ Truncated(p[1], network'.position[id][1])
                 /\ Truncated(p[2], network'.position[id][2])
                 /\ network'.label[id] = id
                 /\ network'.lastID = network.lastID + 1
                 /\ raised' = ""
                 /\ locals'.clickedNode = id ]_vars

\* A primary press at the point Far (negative, fractional coordinates) has
\* created a node.
C2_Witness ==
    /\ Primary(ev, "press")
    /\ Pos(ev.event) = Far
    /\ locals.newNodeCreated
    /\ locals.clickedNode = str(network.lastID - 1)

\* ---- C3: when exactly one node lies within SIMILARITY_DIST of the click,
\* check_node_clicked returns that node and leaves the graph (nodes, edges,
\* positions, labels, lastID) as it is, whatever edgePossible is.
C3_SingleHitReturnsNode ==
    \A p \in Points : \A edgePossible \in BOOLEAN :
        LET near == NodesWithin(network, p, Sim2)
        IN  Cardinality(near) = 1
            => LET r == check_node_clicked(network, p, edgePossible)
               IN  /\ r.node \in near
                   /\ r.network = network

\* A press at NearT hit the only node within the threshold, t, which does not
\* lie exactly at the click.
C3_Witness ==
    /\ Primary(ev, "press")
    /\ Pos(ev.event) = NearT
    /\ locals.tested
    /\ locals.clickedNode = NodeT
    /\ NodesWithin(network, NearT, Sim2) = {NodeT}
    /\ network.position[NodeT] # NearT

\* ---- C4: with no node within SIMILARITY_DIST, check_node_clicked returns
\* None and creates nothing when the nearest node is within 2*SIMILARITY_DIST
\* or edgePossible is true; and no handler both hits an edge and creates a
\* node.
C4_DeadZoneOrEdgeNoNode ==
    /\ \A p \in Points : \A edgePossible \in BOOLEAN :
          (/\ NodesWithin(network, p, Sim2) = {}
           /\ (NodesWithin(network, p, TwoSim2) # {} \/ edgePossible))
          => check_node_clicked(network, p, edgePossible)
               = [network |-> network, node |-> None]
    /\ ~(locals.clickedEdge # None /\ locals.newNodeCreated)

\* A primary press in the dead zone of a node: no node within the threshold,
\* one within twice the threshold, no edge hit, and nothing returned.
C4_Witness ==
    /\ Primary(ev, "press")
    /\ locals.tested
    /\ locals.clickedNode = None
    /\ locals.clickedEdge = None
    /\ NodesWithin(network, Pos(ev.event), Sim2) = {}
    /\ NodesWithin(network, Pos(ev.event), TwoSim2) # {}

\* ---- C5: a primary press on an existing node A directly followed by a
\* primary release on another existing node B, with no edge (A,B), adds the
\* one edge (A,B) and no node; its attributes are transitTime 1, outCapacity
\* 1, inCapacity and storage infinite, flags (False, True) when onlyNTF and
\* (None, None) otherwise; then focusEdge = (A,B) and focusNode = None.
HitExisting(e, loc, kind, v) ==
    Primary(e, kind) /\ loc.clickedNode = v /\ ~loc.newNodeCreated

C5_DragCreatesEdge ==
    [][ \A A \in Range(network.nodes) : \A B \in Range(network.nodes) :
          (/\ A # B
           /\ HitExisting(ev, locals, "press", A)
           /\ HitExisting(ev', locals', "release", B)
           /\ ~has_edge(network, A, B))
          => LET a == network'.attr[<<A, B>>]
             IN  /\ Range(edges(network')) = Range(edges(network)) \cup {<<A, B>>}
                 /\ Len(edges(network')) = Len(edges(network)) + 1
                 /\ \A e \in Range(edges(network)) : network'.attr[e] = network.attr[e]
                 /\ network'.nodes = network.nodes
                 /\ network'.position = network.position
                 /\ a.transitTime = PInt(1)
                 /\ a.outCapacity = PInt(1)
                 /\ a.inCapacity = PInf
                 /\ a.storage = PInf
                 /\ a.TFC.resettingEnabled = (IF onlyNTF THEN "False" ELSE "None")
                 /\ a.TFC.active = (IF onlyNTF THEN "True" ELSE "None")
                 /\ focusEdge' = <<A, B>>
                 /\ focusNode' = None ]_vars

\* A primary release on an existing node has just added the focused edge, in
\* restricted view.
C5_Witness ==
    /\ Primary(ev, "release")
    /\ locals.clickedNode # None
    /\ ~locals.newNodeCreated
    /\ onlyNTF
    /\ focusEdge # None
    /\ focusEdge[2] = locals.clickedNode
    /\ CalledWith(calls, "add_edge_to_list", focusEdge)

\* ---- C6: a press-on-A / release-on-B gesture while (A,B) exists leaves the
\* graph as it is and registers no edge; a press-on-B / release-on-A gesture
\* while (A,B) exists and (B,A) does not adds (B,A) beside (A,B).
C6_EdgeIdempotentReverseAllowed ==
    [][ \A A \in Range(network.nodes) : \A B \in Range(network.nodes) :
          /\ (/\ A # B
              /\ HitExisting(ev, locals, "press", A)
              /\ HitExisting(ev', locals', "release", B)
              /\ has_edge(network, A, B))
             => /\ network' = network
                /\ ~Called(calls', "add_edge_to_list")
          /\ (/\ A # B
              /\ HitExisting(ev, locals, "press", B)
              /\ HitExisting(ev', locals', "release", A)
              /\ <<A, B>> \in Range(edges(network))
              /\ <<B, A>> \notin Range(edges(network)))
             => /\ {<<A, B>>, <<B, A>>} \subseteq Range(edges(network'))
                /\ Len(edges(network')) = Len(edges(network)) + 1
                /\ network'.attr[<<A, B>>] = network.attr[<<A, B>>] ]_vars

\* The release has just added (t,s) beside the existing (s,t).
C6_Witness ==
    /\ Primary(ev, "release")
    /\ locals.clickedNode = NodeS
    /\ CalledWith(calls, "add_edge_to_list", <<NodeT, NodeS>>)
    /\ <<NodeS, NodeT>> \in Range(edges(network))
    /\ <<NodeT, NodeS>> \in Range(edges(network))

\* ---- C7: an event with an absent coordinate changes nothing: no field of
\* the canvas or of the graph, no hit test, no observer or renderer call, no
\* redraw request.
C7_NoCoordinatesIgnored ==
    [][ NoCoordinates(ev'.event)
          => /\ UNCHANGED progVars
             /\ calls' = <<>>
             /\ ~locals'.tested
             /\ raised' = "" ]_vars

\* A release outside the axes arrived while a node was selected.
C7_Witness ==
    /\ ev.kind = "release"
    /\ NoCoordinates(ev.event)
    /\ selectedNode # None

\* ---- C8 (as claimed; refuted: on_release returns before it clears
\* anything): after a release without coordinates no pan anchor is held, no
\* node move is active and selectedNode is None.
C8_ReleaseOutsideAborts ==
    [][ (ev'.kind = "release" /\ NoCoordinates(ev'.event))
          => /\ mouseWheelPressedPosition' = None
             /\ ~mouseWheelPressed'
             /\ ~mouseRightPressed'
             /\ selectedNode' = None ]_vars

\* ---- C9 (as claimed; refuted: update_edges(moved=True) calls set_segments
\* on every edge-line group and replaces the box and the arrow primitive of
\* every group): a node move updates the primitives of the moved node v and
\* of its incident edges, and leaves every node group without v and every
\* edge, box and arrow group without an edge incident to v as it was.
MoveStep ==
    /\ ev'.kind = "motion"
    /\ ~NoCoordinates(ev'.event)
    /\ ~(mouseWheelPressed /\ mouseWheelPressedPosition # None)
    /\ mouseRightPressed
    /\ selectedNode # None

Incident(v, es) == \E k \in 1..Len(es) : v \in Range(es[k])

C9_MoveTouchesOnlyIncident ==
    [][ MoveStep =>
          LET v == selectedNode
          IN  /\ \A i \in 1..Len(nodeCollections) :
                    ~InSeq(v, nodeCollections[i].nodes)
                    => \E j \in 1..Len(nodeCollections') :
                          nodeCollections'[j].handle = nodeCollections[i].handle
                          /\ nodeCollections'[j].nodes = nodeCollections[i].nodes
              /\ \A i \in 1..Len(edgeCollections) :
                    ~Incident(v, edgeCollections[i].edges)
                    => /\ edgeCollections'[i].handle = edgeCollections[i].handle
                       /\ edgeCollections'[i].nsegs = edgeCollections[i].nsegs
                       /\ boxCollections'[i].handle = boxCollections[i].handle
                       /\ arrowCollections'[i].handle = arrowCollections[i].handle
              /\ \E j \in 1..Len(nodeCollections') :
                    /\ nodeCollections'[j].nodes = <<v>>
                    /\ \A i \in 1..Len(nodeCollections) :
                          nodeCollections[i].handle # nodeCollections'[j].handle
              /\ \A i \in 1..Len(edgeCollections) :
                    Incident(v, edgeCollections[i].edges)
                    => /\ edgeCollections'[i].nsegs = edgeCollections[i].nsegs + 1
                       /\ boxCollections'[i].handle # boxCollections[i].handle
                       /\ arrowCollections'[i].handle # arrowCollections[i].handle ]_vars

\* ---- C10: every node of the graph is in exactly one node group, once, and
\* has exactly one node label; every edge is in exactly one edge-line group,
\* one box group and one arrow group, once, and has exactly one edge label.
Occurrences(groups, x, Members(_)) ==
    Cardinality(UNION {{<<i, k>> : k \in {j \in 1..Len(Members(groups[i])) :
                                            Members(groups[i])[j] = x}} :
                       i \in 1..Len(groups)})
LabelCount(d, x) == Cardinality({i \in 1..Len(d) : d[i].key = x})
GroupNodes(g) == g.nodes
GroupEdges(g) == g.edges

C10_OneBindingPerElement ==
    /\ \A v \in Range(network.nodes) :
          /\ Occurrences(nodeCollections, v, GroupNodes) = 1
          /\ LabelCount(nodeLabelCollection, v) = 1
    /\ \A e \in Range(edges(network)) :
          /\ Occurrences(edgeCollections, e, GroupEdges) = 1
          /\ Occurrences(boxCollections, e, GroupEdges) = 1
          /\ Occurrences(arrowCollections, e, GroupEdges) = 1
          /\ LabelCount(edgeLabelCollection, e) = 1

\* A node that has an incident edge was moved: its group was split off and
\* the decorations were redrawn.
C10_Witness ==
    /\ ev.kind = "motion"
    /\ Called(calls, "update_edges")
    /\ raised = ""
    /\ Len(nodeCollections) > 1
    /\ edgeCollections # <<>>
    /\ Incident(focusNode, edgeCollections[1].edges)

\* ---- C11: after the focused node is removed from the graph with its
\* incident edges and update_nodes(removal=True), update_edges(removal=True)
\* have run, every node in a node group or with a node label is a node of the
\* graph, and every edge in an edge-line, box or arrow group or with an edge
\* label is an edge of the graph.
BoundNodes ==
    UNION {Range(nodeCollections[i].nodes) : i \in 1..Len(nodeCollections)}
      \cup {nodeLabelCollection[i].key : i \in 1..Len(nodeLabelCollection)}
BoundEdges ==
    UNION {Range(edgeCollections[i].edges) : i \in 1..Len(edgeCollections)}
      \cup UNION {Range(boxCollections[i].edges) : i \in 1..Len(boxCollections)}
      \cup UNION {Range(arrowCollections[i].edges) : i \in 1..Len(arrowCollections)}
      \cup {edgeLabelCollection[i].key : i \in 1..Len(edgeLabelCollection)}

C11_NoDanglingAfterRemoval ==
    ev.kind = "delete_node"
    => /\ raised = ""
       /\ BoundNodes \subseteq Range(network.nodes)
       /\ BoundEdges \subseteq Range(edges(network))

\* The node s was deleted from a graph drawn with edges (handles beyond those
\* of two nodes and their labels were in use): the node group was redrawn
\* with t alone, and no edge group is left.
C11_Witness ==
    /\ ev.kind = "delete_node"
    /\ focusNode = NodeS
    /\ ~has_node(network, NodeS)
    /\ Called(calls, "update_edges")
    /\ raised = ""
    /\ Len(nodeCollections) = 1
    /\ nodeCollections[1].nodes = <<NodeT>>
    /\ nodeCollections[1].handle > 6
    /\ edgeCollections = <<>>

\* ---- C12 (as claimed; refuted: a primary press on a node runs
\* update_edges and update_nodes, each ending in draw_idle, and a secondary
\* press changes the pan state with no redraw request): no input event issues
\* two or more redraw requests, and an input event that changes the state of
\* the canvas issues exactly one.
CountCalls(log, op) == Cardinality({i \in 1..Len(log) : log[i].op = op})
InputEvent(e) == e.kind \in {"press", "release", "motion", "scroll"}

C12_OneRedrawPerEvent ==
    [][ InputEvent(ev')
          => /\ CountCalls(calls', "draw_idle") <= 1
             /\ (progVars' # progVars => CountCalls(calls', "draw_idle") = 1) ]_vars

\* ---- C13: after construction and after every input event, every edge-line
\* primitive shows, for each of its edges, the selected colour 'b' if the
\* edge is focusEdge; else, in restricted view, 'gray' if its active flag is
\* false, else 'r' if its resettingEnabled flag is true; else 'black'; and
\* every node primitive shows 'b' for focusNode and 'r' for any other node.
PolicyEdgeColour(e) ==
    IF e = focusEdge THEN "b"
    ELSE IF onlyNTF /\ network.attr[e].TFC.active = "False" THEN "gray"
    ELSE IF onlyNTF /\ network.attr[e].TFC.resettingEnabled = "True" THEN "r"
    ELSE "black"

PolicyNodeColour(v) == IF v = focusNode THEN "b" ELSE "r"

C13_ColourPolicy ==
    /\ \A i \in 1..Len(edgeCollections) :
          \A k \in 1..Len(edgeCollections[i].edges) :
             edgeCollections[i].colors[k] = PolicyEdgeColour(edgeCollections[i].edges[k])
    /\ \A i \in 1..Len(nodeCollections) :
          \A k \in 1..Len(nodeCollections[i].nodes) :
             nodeCollections[i].colors[k] = PolicyNodeColour(nodeCollections[i].nodes[k])

\* In restricted view a press focused the edge (s,t), drawn in one group with
\* the edge (t,s), which is inactive and has resetting enabled.
C13_Witness ==
    /\ ev.kind = "press"
    /\ onlyNTF
    /\ focusEdge = <<NodeS, NodeT>>
    /\ has_edge(network, NodeT, NodeS)
    /\ network.attr[<<NodeT, NodeS>>].TFC.active = "False"
    /\ network.attr[<<NodeT, NodeS>>].TFC.resettingEnabled = "True"
    /\ Len(edgeCollections) = 1
    /\ edgeCollections[1].edges = <<<<NodeS, NodeT>>, <<NodeT, NodeS>>>>
    /\ edgeCollections[1].colors = <<"b", "gray">>

\* ---- C14 (as claimed; refuted by rounding: 1/f and each product are
\* rounded): zoom(f) followed by zoom(1/f), and a scroll up followed by a
\* scroll down, restore Xlim, Ylim, edgeWidthSize, nodeLabelFontSize and
\* edgeLabelFontSize to exactly their values before.
ViewOf(c) ==
    <<c.Xlim[1], c.Xlim[2], c.Ylim[1], c.Ylim[2],
      c.edgeWidthSize, c.nodeLabelFontSize, c.edgeLabelFontSize>>
ZoomFactors == {sFactor, bFactor, Float(2), Float(3), FDiv(Float(3), Float(2))}
ZoomedBack(c, f) == zoom(zoom(c, f), FDiv(Float(1), f))
ScrollEvent(b) == At(Mid, b)
ScrolledBack(c) == on_scroll(on_scroll(c, ScrollEvent("up")), ScrollEvent("down"))

RoundTrips(c) ==
    {ViewOf(d) : d \in {ZoomedBack(c, f) : f \in ZoomFactors} \cup {ScrolledBack(c)}}

C14_ZoomRoundTripExact == \A v \in RoundTrips(Canvas) : v = ViewOf(Canvas)

\* ---- C14 (amended): zoom(f) followed by zoom(1/f), and a scroll up
\* followed by a scroll down, restore each of the five fields to within
\* four units in the last place of its value before.
CloseTo(a, b) ==
    \/ a = b
    \/ /\ a[1] # 0
       /\ b[1] # 0
       /\ Abs(a[2] - b[2]) <= 1
       /\ LET e == IF a[2] < b[2] THEN a[2] ELSE b[2]
          IN  Abs(a[1] * Pow2(a[2] - e) - b[1] * Pow2(b[2] - e))
                <= 4 * Pow2(b[2] - e)

ViewCloseTo(v, w) == \A i \in 1..Len(w) : CloseTo(v[i], w[i])

C14_ZoomRoundTripClose ==
    \A v \in RoundTrips(Canvas) : \A w \in {ViewOf(Canvas)} : ViewCloseTo(v, w)

\* A scroll has changed the view, and from here a scroll up followed by a
\* scroll down does not give back exactly the same view.
C14_Witness ==
    /\ ev.kind = "scroll"
    /\ Called(calls, "draw_idle")
    /\ \E d \in {ScrolledBack(Canvas)} : ViewOf(d) # ViewOf(Canvas)

\* ---- C15: on a segment with distinct ends, compute_dist_projection_on_segment
\* returns the sentinel exactly when the foot of the perpendicular lies beyond
\* one of the ends (t < 0 or t > 1; a foot on an end, t = 0 or t = 1, is on
\* the segment), and otherwise the distance from the click to the line of
\* the segment; for the segment (0,0)-(10,0) the clicks (15,0) and (-5,0)
\* give the sentinel, (5,1) gives distance 1 and (5,0) distance 0; and
\* check_edge_clicked reports no edge whose result is the sentinel.
\* The foot lies beyond an end when the angle at that end is obtuse.
BeyondEnds(p, a, b) ==
    \/ Dist2(p, b) > Dist2(p, a) + Dist2(a, b)
    \/ Dist2(p, a) > Dist2(p, b) + Dist2(a, b)
\* The squared distance from p to the line through a and b.
LineDist2(p, a, b) ==
    Rat(Sq((p[1] - a[1]) * (b[2] - a[2]) - (p[2] - a[2]) * (b[1] - a[1])),
        Dist2(a, b))
Distance(d2) == [sign |-> "nonneg", d2 |-> d2]

SegA == <<U(0), U(0)>>
SegB == <<U(10), U(0)>>
SegC == <<U(3), U(4)>>
ProbeClicks ==
    Points \cup {<<U(x), U(y)>> : x \in {-5, 0, 3, 5, 10, 15}, y \in {-1, 0, 1, 4}}
EdgeSegment(G, e) == <<G.position[e[1]], G.position[e[2]]>>
ProbeSegments ==
    {<<SegA, SegB>>, <<SegB, SegA>>, <<SegA, SegC>>}
        \cup {EdgeSegment(network, e) : e \in Range(edges(network))}

C16_EdgeEndsApart ==
    \A e \in Range(edges(network)) :
        network.position[e[1]] # network.position[e[2]]

\* ---- C17: after a primary-button release at a valid position selectedNode
\* is None, whether a node was hit, a node was created, an edge was created,
\* the edge was already there, or nothing was hit.
C17_ReleaseClearsSelection ==
    Primary(ev, "release") => selectedNode = None

\* A primary release that ended a drag from one node to another: the edge was
\* created from the selected node, and the selection is cleared.
C17_Witness ==
    /\ Primary(ev, "release")
    /\ Called(calls, "add_edge_to_list")
    /\ focusEdge # None
    /\ selectedNode = None

\* ---- C18: a removal update run for an element that has no binding (the
\* focused node is bound by no node group and no node label, or the focused
\* edge by no edge group and no edge label) ends with an exception.
RemovalOfUnbound ==
    \/ ev'.kind = "update_nodes_removal" /\ focusNode \notin BoundNodes
    \/ ev'.kind = "update_edges_removal" /\ focusEdge \notin BoundEdges

C18_UnboundRemovalFaults == [][RemovalOfUnbound => raised' # ""]_vars

\* ---- C19: a motion event with coordinates while the wheel is held and an
\* anchor is set leaves edgeWidthSize, both font sizes, the graph, focusNode,
\* focusEdge, selectedNode and every drawn group and label as they are, and
\* moves both ends of Xlim by one amount and both ends of Ylim by one amount:
\* each new bound is the float nearest to the old bound minus (current
\* position minus anchor).
PanStep ==
    /\ ev'.kind = "motion"
    /\ ~NoCoordinates(ev'.event)
    /\ mouseWheelPressed
    /\ mouseWheelPressedPosition # None

\* new is within half a unit in the last place of old - h/2 (h in halves).
ShiftedBy(new, old, h) ==
    \/ new = old /\ h = 0
    \/ /\ new[1] # 0
       /\ LET e == IF new[2] < old[2]
                   THEN (IF new[2] < -1 THEN new[2] ELSE -1)
                   ELSE (IF old[2] < -1 THEN old[2] ELSE -1)
              N == new[1] * Pow2(new[2] - e)
              O == old[1] * Pow2(old[2] - e)
              D == h * Pow2(-1 - e)
          IN  2 * Abs(N - (O - D)) <= Pow2(new[2] - e)

C19_PanTranslatesView ==
    [][PanStep =>
         /\ UNCHANGED <<edgeWidthSize, nodeLabelFontSize, edgeLabelFontSize,
                        network, focusNode, focusEdge, selectedNode,
                        nodeCollections, nodeLabelCollection, edgeCollections,
                        boxCollections, arrowCollections, edgeLabelCollection>>
         /\ \A i \in 1..2 :
              /\ ShiftedBy(Xlim'[i], Xlim[i],
                           Pos(ev'.event)[1] - mouseWheelPressedPosition[1])
              /\ ShiftedBy(Ylim'[i], Ylim[i],
                           Pos(ev'.event)[2] - mouseWheelPressedPosition[2])]_vars

\* A pan step has moved the view: the wheel is held, the pointer is away from
\* the anchor, and the bounds are no longer those of the initial view.
C19_Witness ==
    /\ ev.kind = "motion"
    /\ mouseWheelPressed
    /\ mouseWheelPosition # None
    /\ mouseWheelPosition # mouseWheelPressedPosition
    /\ Xlim # <<FMul(stretchFactor, Float(-sqSize)), FMul(stretchFactor, Float(sqSize))>>
    /\ Ylim # <<Float(-sqSize), Float(sqSize)>>
    /\ Called(calls, "draw_idle")

\* ---- C20: only primary-button presses and releases add nodes or edges.  A
\* secondary-button event and a scroll event leave the graph as it is; a
\* tertiary-button event, and a motion event, leaves the nodes, the edges,
\* their attributes and the id counter as they are and changes the position
\* of no node but the one being moved; and a tertiary press farther than
\* 2 * SIMILARITY_DIST from every node and on no edge adds no node.
ButtonEvent(e, b) ==
    e.kind \in {"press", "release"} /\ ~NoCoordinates(e.event) /\ e.event.button = b
Structure(G) == <<G.nodes, G.adj, G.attr, G.label, G.lastID>>
OnlyMovedNodeMoves ==
    /\ Structure(network') = Structure(network)
    /\ \A v \in DOMAIN network.position :
          network'.position[v] # network.position[v]
             => v \in {selectedNode, selectedNode'}
FarFromAll(G, p) ==
    /\ \A v \in DOMAIN G.position : Dist2(p, G.position[v]) > TwoSim2
    /\ \A e \in Range(edges(G)) :
          ~WithinSimilarity(compute_dist_projection_on_segment(
                                p, G.position[e[1]], G.position[e[2]]))

C20_OnlyPrimaryAdds ==
    [][/\ ButtonEvent(ev', 2) \/ ev'.kind = "scroll" => network' = network
       /\ ButtonEvent(ev', 3) \/ ev'.kind = "motion" => OnlyMovedNodeMoves
       /\ ev'.kind = "press" /\ ButtonEvent(ev', 3)
            /\ FarFromAll(network, Pos(ev'.event))
          => network'.nodes = network.nodes /\ selectedNode' = selectedNode]_vars

\* A tertiary press far from both nodes of the graph and off its edge: no
\* node was hit and none was created.
C20_Witness ==
    /\ ev.kind = "press"
    /\ ButtonEvent(ev, 3)
    /\ Len(network.nodes) >= 2
    /\ Len(edges(network)) >= 1
    /\ FarFromAll(network, Pos(ev.event))
    /\ locals.tested
    /\ locals.clickedNode = None
    /\ ~locals.newNodeCreated

\* ---- C21: a primary press at a position where check_edge_clicked finds an
\* edge and check_node_clicked finds and creates no node sets focusEdge to
\* that edge and focusNode to None, leaves selectedNode and the graph as they
\* are, and calls update_node_display and update_edge_display of the
\* observer.
PressHits(e, G) ==
    [edge |-> check_edge_clicked(G, Pos(e.event)),
     node |-> check_node_clicked(
                  G, Pos(e.event),
                  check_edge_clicked(G, Pos(e.event)) # None).node]

C21_EdgePressFocusesEdge ==
    [][Primary(ev', "press") =>
         \A h \in {PressHits(ev', network)} :
            h.edge # None /\ h.node = None =>
               /\ focusEdge' = h.edge
               /\ focusNode' = None
               /\ selectedNode' = selectedNode
               /\ network' = network
               /\ Called(calls', "update_node_display")
               /\ Called(calls', "update_edge_display")]_vars

\* A primary press has hit an edge and no node; the edge is focused and the
\* node that was selected by a tertiary press before is still selected.
C21_Witness ==
    /\ Primary(ev, "press")
    /\ locals.tested
    /\ locals.clickedEdge # None
    /\ locals.clickedNode = None
    /\ focusEdge = locals.clickedEdge
    /\ focusNode = None
    /\ selectedNode # None
    /\ Called(calls, "update_edge_display")

\* ---- C22: a primary press at a position where check_node_clicked finds or
\* creates a node n sets focusNode and selectedNode to n and focusEdge to
\* None, also when check_edge_clicked finds an edge there; and
\* add_node_to_list is called (once, with n) exactly when n was not a node of
\* the graph before the press.
C22_NodePressFocusesNode ==
    [][Primary(ev', "press") =>
         \A h \in {PressHits(ev', network)} :
            h.node # None =>
               /\ focusNode' = h.node
               /\ focusEdge' = None
               /\ selectedNode' = h.node
               /\ has_node(network', h.node)
               /\ CountCalls(calls', "add_node_to_list")
                    = IF has_node(network, h.node) THEN 0 ELSE 1
               /\ ~has_node(network, h.node)
                    => CalledWith(calls', "add_node_to_list", h.node)]_vars

\* A primary press on a node that lies on an edge: both hit tests succeed and
\* the node is focused and selected, the edge is not; nothing is registered.
C22_Witness ==
    /\ Primary(ev, "press")
    /\ locals.tested
    /\ locals.clickedEdge # None
    /\ locals.clickedNode # None
    /\ ~locals.newNodeCreated
    /\ focusNode = locals.clickedNode
    /\ selectedNode = locals.clickedNode
    /\ focusEdge = None
    /\ ~Called(calls, "add_node_to_list")

\* ---- C23: a primary press at a position where check_edge_clicked finds no
\* edge and check_node_clicked finds and creates no node changes no field of
\* the canvas (graph, focus, selection, groups, labels, view), calls no
\* observer method and requests no redraw.
C23_DeadZonePressChangesNothing ==
    [][Primary(ev', "press") =>
         \A h \in {PressHits(ev', network)} :
            h.edge = None /\ h.node = None =>
               /\ UNCHANGED progVars
               /\ calls' = <<>>
               /\ raised' = ""]_vars

\* A primary press in the dead zone of a node (farther than the threshold,
\* within twice the threshold) and off every edge, with a node focused.
C23_Witness ==
    /\ Primary(ev, "press")
    /\ locals.tested
    /\ locals.clickedEdge = None
    /\ locals.clickedNode = None
    /\ \E v \in DOMAIN network.position :
          /\ Dist2(Pos(ev.event), network.position[v]) > Sim2
          /\ Dist2(Pos(ev.event), network.position[v]) <= TwoSim2
    /\ focusNode # None
    /\ calls = <<>>

\* ---- C24 (as claimed; refuted: on_release clears focusNode after the new
\* node is registered and never writes focusEdge on this path): after a
\* primary release that adds a node to the graph and adds no edge, focusNode
\* and focusEdge are both None.
C24_ReleaseNewNodeClearsFocus ==
    [][/\ Primary(ev', "release")
       /\ Len(network'.nodes) > Len(network.nodes)
       /\ Len(edges(network')) = Len(edges(network))
       => focusNode' = None /\ focusEdge' = None]_vars

\* ---- C25: check_edge_clicked returns the first edge, in the order of
\* G.edges(), whose projection distance lies in [0, SIMILARITY_DIST] (None
\* when there is none), and check_node_clicked returns the first node, in
\* node order, at distance at most SIMILARITY_DIST, also when a later edge or
\* node is strictly closer to the click.
EdgeInRange(G, e, p) ==
    WithinSimilarity(compute_dist_projection_on_segment(
                         p, G.position[e[1]], G.position[e[2]]))
NodeInRange(G, v, p) == Dist2(p, G.position[v]) <= Sim2
\* The first element of the sequence s that satisfies T, None without one.
FirstOf(s, T(_)) ==
    IF \A i \in 1..Len(s) : ~T(s[i]) THEN None
    ELSE s[CHOOSE i \in 1..Len(s) : T(s[i]) /\ \A j \in 1..(i - 1) : ~T(s[j])]

Around(G) ==
    Points \cup {<<G.position[v][1] + dx, G.position[v][2] + dy>> :
                    v \in DOMAIN G.position, dx \in {U(-5), 0, U(5)},
                    dy \in {U(-6), 0, U(6)}}

C25_FirstMatchWins ==
    \A p \in Around(network) :
       /\ check_edge_clicked(network, p)
            = FirstOf(edges(network), LAMBDA e : EdgeInRange(network, e, p))
       /\ (\E v \in Range(network.nodes) : NodeInRange(network, v, p))
            => check_node_clicked(network, p, TRUE).node
                 = FirstOf(network.nodes, LAMBDA v : NodeInRange(network, v, p))

\* The node (edge) returned for the click p comes earlier in the order than
\* another one in range that is strictly closer to p.
LaterNodeCloser(G, p) ==
    \E i, j \in 1..Len(G.nodes) :
       /\ i < j
       /\ G.nodes[i] = check_node_clicked(G, p, TRUE).node
       /\ NodeInRange(G, G.nodes[j], p)
       /\ Dist2(p, G.position[G.nodes[j]]) < Dist2(p, G.position[G.nodes[i]])
ProjDist2(G, e, p) ==
    compute_dist_projection_on_segment(p, G.position[e[1]], G.position[e[2]]).d2
LaterEdgeCloser(G, p) ==
    \E i, j \in 1..Len(edges(G)) :
       /\ i < j
       /\ edges(G)[i] = check_edge_clicked(G, p)
       /\ EdgeInRange(G, edges(G)[j], p)
       /\ ~RLeq(ProjDist2(G, edges(G)[i], p), ProjDist2(G, edges(G)[j], p))

\* A node has been dragged next to another one: for some click both are in
\* range and the hit test returns the first although the second is closer.
C25_Witness ==
    /\ ev.kind \in {"motion", "release"}
    /\ \E p \in Around(network) : LaterNodeCloser(network, p)

\* The same with two edges that run close to each other.
C25_WitnessEdge ==
    /\ ev.kind \in {"motion", "release"}
    /\ \E p \in Around(network) : LaterEdgeCloser(network, p)

\* ---- C26: a tertiary-button release with coordinates leaves focusNode and
\* focusEdge as they are and ends the node move: the move flag is off after
\* it, a motion event with the flag off changes no node position, and the
\* flag is switched on only by a tertiary press that hits a node.
C26_TertiaryReleaseEndsMove ==
    [][/\ ev'.kind = "release" /\ ButtonEvent(ev', 3)
            => /\ focusNode' = focusNode
               /\ focusEdge' = focusEdge
               /\ ~mouseRightPressed'
       /\ ev'.kind = "motion" /\ ~mouseRightPressed
            => network'.position = network.position
       /\ ~mouseRightPressed /\ mouseRightPressed'
            => /\ ev'.kind = "press" /\ ButtonEvent(ev', 3)
               /\ check_node_clicked(network, Pos(ev'.event), TRUE).node # None]_vars

\* A tertiary release after a node was pressed and dragged to Mid: the node
\* stays focused, nothing is selected and the move flag is off.
C26_Witness ==
    /\ ev.kind = "release"
    /\ ButtonEvent(ev, 3)
    /\ focusNode # None
    /\ has_node(network, focusNode)
    /\ network.position[focusNode] = Mid
    /\ selectedNode = None
    /\ ~mouseRightPressed

\* ------------------------------------------------------- interrupted moves
\* The primary and tertiary presses and the motions of Spec at three of its
\* pointer positions (on s, on the segment s-t, far from everything), in
\* gestures of up to GestureLength events: long enough for a node move that a
\* primary press interrupts and a later press follows.
GestureLength == 4
GesturePoints == {AtS, Mid, Far}

HandledInGesture(kind, event, c) ==
    /\ nEvents < GestureLength
    /\ Becomes(c)
    /\ ev' = [kind |-> kind, event |-> event]
    /\ nEvents' = nEvents + 1

PressInGesture ==
    \E p \in GesturePoints : \E b \in {1, 3} :
        HandledInGesture("press", At(p, b), on_click(Canvas, At(p, b)))
MotionInGesture ==
    \E p \in GesturePoints :
        HandledInGesture("motion", At(p, 0), on_motion(Canvas, At(p, 0)))

NextGesture == PressInGesture \/ MotionInGesture

SpecGesture == Init /\ [][NextGesture]_vars

\* ---- C27: a primary or tertiary press on an existing node, and a primary
\* press on an edge, creates no primitive and removes none: every node, edge,
\* box and arrow group keeps its handle and its elements, every label keeps
\* its handle, text and position, no handle is allocated, and nothing but
\* the colours and line widths of the groups is written.
SelectionPress(e, G) ==
    /\ e.kind = "press"
    /\ \/ /\ ButtonEvent(e, 1)
          /\ \A h \in {PressHits(e, G)} :
                \/ h.node # None /\ has_node(G, h.node)
                \/ h.node = None /\ h.edge # None
       \/ /\ ButtonEvent(e, 3)
          /\ check_node_clicked(G, Pos(e.event), TRUE).node # None

Geometry(groups) ==
    [i \in 1..Len(groups) |->
        [f \in (DOMAIN groups[i]) \ {"colors", "lw"} |-> groups[i][f]]]

C27_SelectionKeepsPrimitives ==
    [][SelectionPress(ev', network) =>
         /\ nextHandle' = nextHandle
         /\ Geometry(nodeCollections') = Geometry(nodeCollections)
         /\ Geometry(edgeCollections') = Geometry(edgeCollections)
         /\ Geometry(boxCollections') = Geometry(boxCollections)
         /\ Geometry(arrowCollections') = Geometry(arrowCollections)
         /\ nodeLabelCollection' = nodeLabelCollection
         /\ edgeLabelCollection' = edgeLabelCollection
         /\ network' = network]_vars

\* A press on a node of a graph with an edge changed the selection: the
\* colours were pushed to the node and edge groups in place.
C27_Witness ==
    /\ SelectionPress(ev, network)
    /\ focusNode # None
    /\ Called(calls, "update_nodes")
    /\ Called(calls, "update_edges")
    /\ edgeCollections # <<>>
    /\ \E i \in 1..Len(nodeCollections) :
          \E k \in 1..Len(nodeCollections[i].nodes) :
             /\ nodeCollections[i].nodes[k] = focusNode
             /\ nodeCollections[i].colors[k] = "b"

\* ---- C28 (as claimed; refuted by rounding: every product of zoom and
\* every difference of move is rounded): in every state edgeWidthSize,
\* nodeLabelFontSize and edgeLabelFontSize are in their initial ratios, and
\* (Xlim high - Xlim low) * edgeWidthSize and (Ylim high - Ylim low) *
\* edgeWidthSize have their initial values.
\* Exact arithmetic on floats: <<n, e>> stands for n * 2^e, not normalised.
DMul(a, b) == <<a[1] * b[1], a[2] + b[2]>>
DSub(a, b) ==
    LET e == IF a[2] < b[2] THEN a[2] ELSE b[2]
    IN  <<a[1] * Pow2(a[2] - e) - b[1] * Pow2(b[2] - e), e>>
DAbs(a) == <<Abs(a[1]), a[2]>>
DLeq(a, b) == DSub(a, b)[1] <= 0
DLess(a, b) == DSub(a, b)[1] < 0
DEq(a, b) == DSub(a, b)[1] = 0

Width(lim) == DSub(lim[2], lim[1])
Xlim0 == <<FMul(stretchFactor, Float(-sqSize)), FMul(stretchFactor, Float(sqSize))>>
Ylim0 == <<Float(-sqSize), Float(sqSize)>>

C28_ScalesExact ==
    /\ DEq(DMul(edgeWidthSize, Float(nodeLabelFontSize0)),
           DMul(Float(edgeWidthSize0), nodeLabelFontSize))
    /\ DEq(DMul(edgeWidthSize, Float(edgeLabelFontSize0)),
           DMul(Float(edgeWidthSize0), edgeLabelFontSize))
    /\ DEq(DMul(Width(Xlim), edgeWidthSize), DMul(Width(Xlim0), Float(edgeWidthSize0)))
    /\ DEq(DMul(Width(Ylim), edgeWidthSize), DMul(Width(Ylim0), Float(edgeWidthSize0)))

\* ---- C28 (amended): over every step the ratios of edgeWidthSize,
\* nodeLabelFontSize and edgeLabelFontSize and the products (Xlim high - Xlim
\* low) * edgeWidthSize and (Ylim high - Ylim low) * edgeWidthSize are kept up
\* to rounding: a ratio to within four units in the last place of the sizes,
\* a product to within eight units in the last place of the bound largest in
\* magnitude, times edgeWidthSize; a zoom step that enlarges the visible
\* rectangle makes all three sizes smaller; and a pan step changes none of the three.
\* One unit in the last place of the float a.
Ulp(a) == <<1, a[2]>>
\* The largest unit in the last place among the floats of the set S.
MaxUlp(S) == CHOOSE u \in {Ulp(a) : a \in S} : \A a \in S : DLeq(Ulp(a), u)
Times(k, a) == <<k * a[1], a[2]>>

RatioKept(a1, b1, a, b) ==
    DLeq(DAbs(DSub(DMul(a1, b), DMul(a, b1))), Times(4, DMul(Ulp(a1), DAbs(b))))
\* The products are compared exactly in two limbs, value = high * Limb + low
\* with 0 <= low < Limb, since they do not fit in one machine integer.
Limb == Pow2(14)
MinExp(S) == CHOOSE e \in {a[2] : a \in S} : \A a \in S : e <= a[2]
\* The significand of the float a at the exponent e <= a[2].
Scaled(a, e) == a[1] * Pow2(a[2] - e)
\* -(tH * Limb + tL) <= gH * Limb + gL <= tH * Limb + tL
InBand(gH, gL, tH, tL) ==
    /\ gH < tH \/ (gH = tH /\ gL <= tL)
    /\ IF tL = 0 THEN gH >= -tH
       ELSE gH > -tH - 1 \/ (gH = -tH - 1 /\ gL >= Limb - tL)
\* | M1 * m1 - M * m | <= 8 * u * mMax, for a power of two u.
LimbsKept(M1, m1, M, m, u, mMax) ==
    \A dL \in {(M1 % Limb) * m1 - (M % Limb) * m} :
        InBand((M1 \div Limb) * m1 - (M \div Limb) * m + (dL \div Limb),
               dL % Limb,
               IF u >= Limb THEN 8 * mMax * (u \div Limb)
               ELSE (8 * mMax * u) \div Limb,
               IF u >= Limb THEN 0 ELSE (8 * mMax * u) % Limb)
ScaledKept(lim1, w1, lim, w, eW, ew, ulp) ==
    LimbsKept(Scaled(lim1[2], eW) - Scaled(lim1[1], eW), Scaled(w1, ew),
              Scaled(lim[2], eW) - Scaled(lim[1], eW), Scaled(w, ew),
              Scaled(ulp, eW),
              IF DLess(w, w1) THEN Scaled(w1, ew) ELSE Scaled(w, ew))
ProductKept(lim1, w1, lim, w) ==
    ScaledKept(lim1, w1, lim, w, MinExp({lim1[1], lim1[2], lim[1], lim[2]}),
               MinExp({w1, w}), MaxUlp({lim1[1], lim1[2], lim[1], lim[2]}))

C28_ScalesUpToRounding ==
    [][/\ RatioKept(edgeWidthSize', nodeLabelFontSize', edgeWidthSize, nodeLabelFontSize)
       /\ RatioKept(edgeWidthSize', edgeLabelFontSize', edgeWidthSize, edgeLabelFontSize)
       /\ ProductKept(Xlim', edgeWidthSize', Xlim, edgeWidthSize)
       /\ ProductKept(Ylim', edgeWidthSize', Ylim, edgeWidthSize)
       /\ (ev'.kind = "scroll" /\ DLess(Width(Xlim), Width(Xlim')))
            => /\ DLess(edgeWidthSize', edgeWidthSize)
               /\ DLess(nodeLabelFontSize', nodeLabelFontSize)
               /\ DLess(edgeLabelFontSize', edgeLabelFontSize)
       /\ PanStep => UNCHANGED <<edgeWidthSize, nodeLabelFontSize, edgeLabelFontSize>>]_vars

\* A scroll has zoomed the view, and the product of the width of the visible
\* rectangle and the edge width is no longer exactly its initial value.
C28_Witness ==
    /\ ev.kind = "scroll"
    /\ Called(calls, "draw_idle")
    /\ Xlim # Xlim0
    /\ ~DEq(DMul(Width(Xlim), edgeWidthSize), DMul(Width(Xlim0), Float(edgeWidthSize0)))

\* ---- C29: over every step, each node that the step adds to the graph is
\* the argument of exactly one add_node_to_list call of that step and each
\* edge that it adds of exactly one add_edge_to_list call, and every
\* add_node_to_list or add_edge_to_list call of the step has an element added
\* by the step as its argument.
CountCallsWith(log, op, arg) ==
    Cardinality({i \in 1..Len(log) : log[i].op = op /\ log[i].arg = arg})
Registered(log, op) == {log[i].arg : i \in {k \in 1..Len(log) : log[k].op = op}}

C29_RegisteredExactlyOnce ==
    [][/\ \A v \in Range(network'.nodes) \ Range(network.nodes) :
             CountCallsWith(calls', "add_node_to_list", v) = 1
       /\ \A e \in Range(edges(network')) \ Range(edges(network)) :
             CountCallsWith(calls', "add_edge_to_list", e) = 1
       /\ Registered(calls', "add_node_to_list")
             \subseteq Range(network'.nodes) \ Range(network.nodes)
       /\ Registered(calls', "add_edge_to_list")
             \subseteq Range(edges(network')) \ Range(edges(network))]_vars

\* A primary release far from the pressed node has added a node and the edge
\* to it, and both were registered.
C29_Witness ==
    /\ Primary(ev, "release")
    /\ locals.newNodeCreated
    /\ CalledWith(calls, "add_node_to_list", locals.clickedNode)
    /\ \E v \in Range(network.nodes) :
          CalledWith(calls, "add_edge_to_list", <<v, locals.clickedNode>>)
    /\ focusEdge # None
    /\ focusEdge[2] = locals.clickedNode

\* ---------------------------------------------------------------------- C30
IsInfinite(v) == v.den = 0
IsIntegral(v) == v.den # 0 /\ v.num % v.den = 0
\* shown is what a label may show for the attribute value v.
ShownAs(v, shown) ==
    IF IsInfinite(v) THEN shown = v
    ELSE IF IsIntegral(v)
         THEN /\ ~shown.float
              /\ shown.den = 1
              /\ shown.num * v.den = v.num
         ELSE shown = v

\* C30: every edge label shows one value for each attribute the graph kind and
\* the restricted-view flag select, in their order: an integer for a finite
\* integral attribute value, infinity itself for an infinite one, and a finite
\* non-integral value as it is.
C30_LabelsShortenIntegers ==
    \A i \in 1..Len(edgeLabelCollection) :
        LET item == edgeLabelCollection[i]
            a == network.attr[item.key]
            names == LabelAttributes(type, onlyNTF)
        IN  /\ Len(item.text) = Len(names)
            /\ \A k \in 1..Len(names) :
                   ShownAs(AttrValue(a, names[k]), item.text[k])

\* After an event, the labels show a float 2.0 as the integer 2, a second
\* value 1.5 or 2.5 unchanged, and an infinite value as infinity.
C30_Witness ==
    /\ nEvents > 0
    /\ raised = ""
    /\ \E i \in 1..Len(edgeLabelCollection) :
           LET item == edgeLabelCollection[i]
               a == network.attr[item.key]
           IN  /\ a.outCapacity = PFloat(2, 1)
               /\ item.text[1] = PInt(2)
               /\ item.text[2] \in {PFloat(3, 2), PFloat(5, 2)}
    /\ \E i \in 1..Len(edgeLabelCollection) :
           edgeLabelCollection[i].text[1] = PInf

\* ---- C31: whenever a node move is active (the tertiary button is recorded
\* as pressed and a node is selected), the focused node is the selected node.
C31_MoveActsOnFocus ==
    (mouseRightPressed /\ selectedNode # None) => focusNode = selectedNode

\* ---- C32: an edge created by a primary release has as its tail the node
\* that the primary press of the same gesture hit or created.  Stated for the
\* releases that at most one event precedes: that event is then the press of
\* the gesture, so it is a primary press and the node it hit or created is
\* the tail of every edge the release adds.
NewEdges == Range(edges(network')) \ Range(edges(network))

C32_EdgeTailFromPrimaryPress ==
    [][(Primary(ev', "release") /\ nEvents <= 1 /\ NewEdges # {})
         => /\ Primary(ev, "press")
            /\ \A e \in NewEdges : e[1] = locals.clickedNode]_vars

\* ---- C33: a motion event with coordinates while a pan is active (wheel
\* held, anchor set) and a node move is active (tertiary button held, a node
\* selected) pans only: the pointer position is recorded for the pan, the
\* graph with every node position, every node, edge, box and arrow group and
\* every label stay as they are, no handle is allocated, and the one call of
\* the handler is the redraw request of the pan.
PanDuringMove ==
    /\ PanStep
    /\ mouseRightPressed
    /\ selectedNode # None

C33_PanOverridesMove ==
    [][PanDuringMove =>
         /\ network' = network
         /\ mouseWheelPosition' = Pos(ev'.event)
         /\ UNCHANGED <<nodeCollections, nodeLabelCollection, edgeCollections,
                        boxCollections, arrowCollections, edgeLabelCollection,
                        nextHandle, focusNode, focusEdge, selectedNode,
                        mouseRightPressed>>
         /\ ~Called(calls', "update_nodes")
         /\ ~Called(calls', "update_edges")
         /\ Called(calls', "draw_idle")
         /\ Len(calls') = 1
         /\ raised' = ""]_vars

\* A motion has panned the view away from its initial place while the
\* tertiary button held a node, and the node is not at the pointer.
C33_Witness ==
    /\ ev.kind = "motion"
    /\ ~NoCoordinates(ev.event)
    /\ mouseWheelPressed
    /\ mouseWheelPressedPosition # None
    /\ mouseWheelPosition = Pos(ev.event)
    /\ mouseRightPressed
    /\ selectedNode # None
    /\ has_node(network, selectedNode)
    /\ network.position[selectedNode] # Pos(ev.event)
    /\ Xlim # Xlim0

\* ---- C34: a primary release at a point farther than 2*SIMILARITY_DIST from
\* every node and on no edge, directly after a primary press that hit an
\* existing node A, adds exactly one node N and exactly one edge, (A,N);
\* the release registers N and (A,N) with the observer once each, and ends
\* with focusEdge = (A,N), no focused node and no selected node.
PressedExisting ==
    /\ Primary(ev, "press")
    /\ raised = ""
    /\ locals.clickedNode # None
    /\ ~locals.newNodeCreated

DragToFarPoint ==
    /\ PressedExisting
    /\ Primary(ev', "release")
    /\ FarFromAll(network, Pos(ev'.event))

C34_DragCreatesNodeAndEdge ==
    [][DragToFarPoint =>
         \E N \in Range(network'.nodes) \ Range(network.nodes) :
            /\ network'.nodes = Append(network.nodes, N)
            /\ NewEdges = {<<locals.clickedNode, N>>}
            /\ Range(edges(network)) \subseteq Range(edges(network'))
            /\ CountCallsWith(calls', "add_node_to_list", N) = 1
            /\ CountCallsWith(calls', "add_edge_to_list",
                              <<locals.clickedNode, N>>) = 1
            /\ focusEdge' = <<locals.clickedNode, N>>
            /\ focusNode' = None
            /\ selectedNode' = None
            /\ raised' = ""]_vars

\* A press on s and a release far away have added a node and the edge from s
\* to it, which is focused.
C34_Witness ==
    /\ Primary(ev, "release")
    /\ locals.newNodeCreated
    /\ focusEdge = <<NodeS, locals.clickedNode>>
    /\ has_edge(network, NodeS, locals.clickedNode)
    /\ CalledWith(calls, "add_edge_to_list", <<NodeS, locals.clickedNode>>)
    /\ CalledWith(calls, "add_node_to_list", locals.clickedNode)
    /\ focusNode = None
    /\ selectedNode = None
    /\ ~mouseRightPressed
    /\ nEvents = 2

\* ---- C35: a primary press at a point farther than 2*SIMILARITY_DIST from
\* every node and on no edge creates exactly one node and no edge, and a
\* primary release at the same point directly after it hits that node (whose
\* position is the truncated point): the release creates no node and no edge
\* and ends with the created node focused, no focused edge and no selected
\* node.
PressedNew ==
    /\ Primary(ev, "press")
    /\ raised = ""
    /\ locals.clickedNode # None
    /\ locals.newNodeCreated

ClickInPlace ==
    /\ PressedNew
    /\ Primary(ev', "release")
    /\ Pos(ev'.event) = Pos(ev.event)

C35_ClickCreatesOneNode ==
    [][/\ (Primary(ev', "press") /\ FarFromAll(network, Pos(ev'.event)))
            => /\ Len(network'.nodes) = Len(network.nodes) + 1
               /\ edges(network') = edges(network)
               /\ locals'.newNodeCreated
       /\ ClickInPlace
            => /\ network' = network
               /\ locals'.clickedNode = locals.clickedNode
               /\ ~locals'.newNodeCreated
               /\ focusNode' = locals.clickedNode
               /\ focusEdge' = None
               /\ selectedNode' = None
               /\ raised' = ""]_vars

\* A press and a release at the point Far: the node created by the press is
\* at the truncated point, not at Far, and the release hit it.
C35_Witness ==
    /\ Primary(ev, "release")
    /\ Pos(ev.event) = Far
    /\ nEvents = 2
    /\ Len(network.nodes) = 3
    /\ focusNode = str(network.lastID - 1)
    /\ locals.clickedNode = focusNode
    /\ ~locals.newNodeCreated
    /\ network.position[focusNode] # Far
    /\ edges(network) = <<>>
    /\ focusEdge = None
    /\ selectedNode = None

\* ---- C36: in every state reached by input events, a focused node is a node
\* of the graph, a focused edge is an edge of the graph, and a selected node
\* is a node of the graph.
C36_FocusInGraph ==
    /\ focusNode # None => has_node(network, focusNode)
    /\ focusEdge # None => has_edge(network, focusEdge[1], focusEdge[2])
    /\ selectedNode # None => has_node(network, selectedNode)

\* A release has created a node and the edge to it: the edge is focused; and
\* a later press on the new node has focused and selected it.
C36_Witness ==
    /\ Primary(ev, "press")
    /\ focusNode # None
    /\ focusNode = selectedNode
    /\ focusNode \notin {NodeS, NodeT}
    /\ \E v \in Range(network.nodes) : has_edge(network, v, focusNode)

\* ---- C37: when a node is focused, the label refresh at the end of
\* update_edges takes the label of an edge (it does not skip it) if and only
\* if one of the two endpoints of the edge is the focused node.
C37_LabelRefreshOnlyIncident ==
    focusNode # None =>
        \A i \in 1..Len(edgeLabelCollection) :
            \A e \in {edgeLabelCollection[i].key} :
                ~SkipsLabel(Canvas, e[1], e[2]) <=> focusNode \in {e[1], e[2]}

\* ---- C38: after every handled input event the line width set on the
\* primitive of the focused edge is edgeWidthSize + 1 and the line width set
\* on every other edge is edgeWidthSize.
C38_FocusedEdgeWider ==
    (nEvents > 0 /\ raised = "") =>
        \A i \in 1..Len(edgeCollections) :
            \A k \in 1..Len(edgeCollections[i].edges) :
                edgeCollections[i].lw[k] =
                    IF edgeCollections[i].edges[k] = focusEdge
                    THEN FAdd(edgeWidthSize, Float(1))
                    ELSE edgeWidthSize
====
